---------------------------- MODULE Spec2Model ----------------------------
(***************************************************************************)
(* A model of the Cursor CLI wrapper (src/cursor_cli.py): the NDJSON event *)
(* decoder and text reconciler of iter_events, and the process supervisor  *)
(* (create_process, kill_process); the callers' loops over its events     *)
(* (src/app.py, src/knowledge.py); and the conversation memory             *)
(* (src/memory.py): diagnostic state extraction, rolling summary and       *)
(* prompt assembly.                                                        *)
(*                                                                         *)
(* Python strings are sequences of one-character strings, so that len,     *)
(* startswith,  in , slicing and + are computed as Python computes them.   *)
(***************************************************************************)
EXTENDS Integers, Sequences, FiniteSets, TLC

VARIABLES
    vocab,        \* which family of inputs the run draws from
    pc,           \* where the iter_events generator stands
    session_id,   \* iter_events local session_id (None or a string)
    accumulated,  \* iter_events local accumulated
    events,       \* every (event_type, payload) the generator has yielded
    proc,         \* the subprocess.Popen object and the child behind it
    reads,        \* history: one record per stdout line read so far
    steps,        \* history: one record per assistant text fragment reconciled
    truth,        \* script: the answer the agent has produced so far
    scripted,     \* script: only deltas, cumulative re-sends, one final re-send
    finalSent,    \* script: the final full re-send has been made
    killCalls,    \* history: the kill_process calls made, in order
    cp,           \* the last create_process call and its outcome
    state,        \* memory.py: the DiagnosticState object the caller holds
    extractions,  \* history: the extract_state_updates calls made, in order
    messages,     \* memory.py: the messages of the conversation, oldest first
    summary,      \* memory.py: the rolling summary the conversation stores
    built,        \* history: the build_summary and build_prompt calls made
    db,           \* db.py: the tables of the database
    callers,      \* knowledge.py: the start_summarization calls under way
    workers,      \* knowledge.py: the summarization worker processes
    ui,           \* app.py: the browser sessions and their script runs
    agents        \* app.py: the agent subprocesses the script runs started

\* the variables of the conversation memory (src/memory.py)
memvars == <<state, extractions, messages, summary, built>>

\* no conversation memory is involved
NoMemory ==
    /\ state = <<>>
    /\ extractions = <<>>
    /\ messages = <<>>
    /\ summary = <<>>
    /\ built = <<>>

\* the variables of the chat application and of the knowledge base
\* (src/app.py, src/knowledge.py, src/db.py)
appvars == <<db, callers, workers, ui, agents>>

\* no application is involved
NoApp ==
    /\ db = <<>>
    /\ callers = <<>>
    /\ workers = <<>>
    /\ ui = <<>>
    /\ agents = <<>>

\* the variables of the stream adapter (src/cursor_cli.py)
clivars == <<pc, session_id, accumulated, events, proc, reads, steps,
             truth, scripted, finalSent, killCalls, cp>>

vars == <<vocab, clivars, memvars, appvars>>

(***************************************************************************)
(* Bounds of the model.                                                    *)
(***************************************************************************)
MaxLines == 3
MaxKills == 2

(***************************************************************************)
(* Strings.                                                                *)
(***************************************************************************)
Rep(c, n) == [i \in 1..n |-> c]

\* str.startswith
StartsWith(s, prefix) ==
    /\ Len(prefix) <= Len(s)
    /\ SubSeq(s, 1, Len(prefix)) = prefix

\* Python's (sub in s) on strings
Contains(s, sub) ==
    \E i \in 0..(Len(s) - Len(sub)) : SubSeq(s, i + 1, i + Len(sub)) = sub

\* s[n:]
SliceFrom(s, n) == SubSeq(s, n + 1, Len(s))

\* the strings the script is made of
sA  == <<"a">>
sAB == <<"a", "b">>
sHello == <<"H", "e", "l", "l", "o">>
sWorld == <<" ", "w", "o", "r", "l", "d">>
sBang  == <<"!">>
sInvestigating ==
    <<"I", "n", "v", "e", "s", "t", "i", "g", "a", "t", "i", "n", "g", " ",
      "t", "h", "e", " ", "i", "s", "s", "u", "e", ".">>
sRewritten150 == Rep("r", 150)
sX100 == Rep("x", 100)
sX101 == Rep("x", 101)
sW101 == Rep("w", 101)
sY102 == Rep("y", 102)

Vocabularies == {"short", "hello", "rewrite", "long", "protocol"}

Pieces(v) ==
    CASE v = "short"    -> {sA, sAB}
      [] v = "hello"    -> {sHello, sWorld, sBang}
      [] v = "rewrite"  -> {sInvestigating, sRewritten150}
      [] v = "long"     -> {sX100, sX101, sW101, sY102}
      [] v = "protocol" -> {sA}

(***************************************************************************)
(* The events iter_events yields: (event_type, payload).                   *)
(***************************************************************************)
Ev(kind, payload) == <<kind, payload>>

\* the 100 of: len(text) > 100
ReplaceMinLen == 100

\* Faulty variants of reconcile, each a plausible slip in one branch:
\* accumulated not advanced on a cumulative re-send; the whole cumulative
\* text yielded instead of its tail; (text in accumulated) left out; >= 100
\* for > 100.
reconcile_tail_lost(acc, text) ==
    IF acc = <<>>
    THEN [acc |-> text, ops |-> <<Ev("text", text)>>]
    ELSE IF StartsWith(text, acc)
    THEN LET new_part == SliceFrom(text, Len(acc))
         IN  IF new_part # <<>>
             THEN [acc |-> acc, ops |-> <<Ev("text", new_part)>>]
             ELSE [acc |-> acc, ops |-> <<>>]
    ELSE IF StartsWith(acc, text) \/ Contains(acc, text)
    THEN [acc |-> acc, ops |-> <<>>]
    ELSE IF Len(text) * 2 >= Len(acc) /\ Len(text) > ReplaceMinLen
    THEN [acc |-> text, ops |-> <<Ev("text_replace", text)>>]
    ELSE [acc |-> acc \o text, ops |-> <<Ev("text", text)>>]

reconcile_whole_resent(acc, text) ==
    IF acc = <<>>
    THEN [acc |-> text, ops |-> <<Ev("text", text)>>]
    ELSE IF StartsWith(text, acc)
    THEN LET new_part == SliceFrom(text, Len(acc))
         IN  IF new_part # <<>>
             THEN [acc |-> text, ops |-> <<Ev("text", text)>>]
             ELSE [acc |-> acc, ops |-> <<>>]
    ELSE IF StartsWith(acc, text) \/ Contains(acc, text)
    THEN [acc |-> acc, ops |-> <<>>]
    ELSE IF Len(text) * 2 >= Len(acc) /\ Len(text) > ReplaceMinLen
    THEN [acc |-> text, ops |-> <<Ev("text_replace", text)>>]
    ELSE [acc |-> acc \o text, ops |-> <<Ev("text", text)>>]

reconcile_prefix_only(acc, text) ==
    IF acc = <<>>
    THEN [acc |-> text, ops |-> <<Ev("text", text)>>]
    ELSE IF StartsWith(text, acc)
    THEN LET new_part == SliceFrom(text, Len(acc))
         IN  IF new_part # <<>>
             THEN [acc |-> text, ops |-> <<Ev("text", new_part)>>]
             ELSE [acc |-> acc, ops |-> <<>>]
    ELSE IF StartsWith(acc, text)
    THEN [acc |-> acc, ops |-> <<>>]
    ELSE IF Len(text) * 2 >= Len(acc) /\ Len(text) > ReplaceMinLen
    THEN [acc |-> text, ops |-> <<Ev("text_replace", text)>>]
    ELSE [acc |-> acc \o text, ops |-> <<Ev("text", text)>>]

reconcile_ge_100(acc, text) ==
    IF acc = <<>>
    THEN [acc |-> text, ops |-> <<Ev("text", text)>>]
    ELSE IF StartsWith(text, acc)
    THEN LET new_part == SliceFrom(text, Len(acc))
         IN  IF new_part # <<>>
             THEN [acc |-> text, ops |-> <<Ev("text", new_part)>>]
             ELSE [acc |-> acc, ops |-> <<>>]
    ELSE IF StartsWith(acc, text) \/ Contains(acc, text)
    THEN [acc |-> acc, ops |-> <<>>]
    ELSE IF Len(text) * 2 >= Len(acc) /\ Len(text) >= ReplaceMinLen
    THEN [acc |-> text, ops |-> <<Ev("text_replace", text)>>]
    ELSE [acc |-> acc \o text, ops |-> <<Ev("text", text)>>]

\* iter_events, lines 196-215: one assistant text fragment against
\* accumulated; the new accumulated     and the events yielded.
\* len(text) >= len(accumulated) * 0.5 is, on integers, 2*len(text) >= len(accumulated).
reconcile(acc, text) ==
    IF acc = <<>>
    THEN [acc |-> text, ops |-> <<Ev("text", text)>>]
    ELSE IF StartsWith(text, acc)
    THEN LET new_part == SliceFrom(text, Len(acc))
         IN  IF new_part # <<>>
             THEN [acc |-> text, ops |-> <<Ev("text", new_part)>>]
             ELSE [acc |-> acc, ops |-> <<>>]
    ELSE IF StartsWith(acc, text) \/ Contains(acc, text)
    THEN [acc |-> acc, ops |-> <<>>]
    ELSE IF Len(text) * 2 >= Len(acc) /\ Len(text) > ReplaceMinLen
    THEN [acc |-> text, ops |-> <<Ev("text_replace", text)>>]
    ELSE [acc |-> acc \o text, ops |-> <<Ev("text", text)>>]

(***************************************************************************)
(* Optional values: None is the empty tuple, a value x is <<x>>.           *)
(***************************************************************************)
Some(x) == <<x>>
Get(o) == o[1]

\* Python truthiness of an optional string: None and "" are falsy
Truthy(o) == o # <<>> /\ Get(o) # <<>>

(***************************************************************************)
(* Stdout lines, as json.loads sees them.                                  *)
(*   raw  = "blank"    raw_line.strip() is empty                           *)
(*   raw  = "garbage"  json.loads raises JSONDecodeError                   *)
(*   raw  = "json"     json.loads returns  json : an "object" (a dict), or *)
(*                     a "list" or a "number" (valid JSON, not an object)  *)
(* A dict has an optional "session_id", a "type", a message.content list   *)
(* of items (type, text), a "subtype" and a "tool_call" (key, argument).   *)
(***************************************************************************)
NoTool == [key |-> "", arg |-> <<>>]

Line(raw, json, sid, type, content, subtype, tool) ==
    [raw |-> raw, json |-> json, sid |-> sid, type |-> type,
     content |-> content, subtype |-> subtype, tool_call |-> tool]

BlankLine   == Line("blank", "", <<>>, "", <<>>, "", NoTool)
GarbageLine == Line("garbage", "", <<>>, "", <<>>, "", NoTool)
NonObjectLine(j) == Line("json", j, <<>>, "", <<>>, "", NoTool)
ObjectLine(sid, type, content, subtype, tool) ==
    Line("json", "object", sid, type, content, subtype, tool)

TextItem(text) == [type |-> "text", text |-> text]
AssistantLine(text) == ObjectLine(<<>>, "assistant", <<TextItem(text)>>, "", NoTool)

(***************************************************************************)
(* _describe_tool_call and _TOOL_MAP.                                      *)
(***************************************************************************)
\* the 80 and 77 of: val if len(val) <= 80 else val[:77] + "..."
ToolArgMax == 80
ToolArgKeep == 77

\* the back-quote character around the argument (U+0060)
BackQuote == "U+0060"

TOOL_MAP ==
    << <<"shellToolCall",  "command",     "Running">>,
       <<"readToolCall",   "path",        "Reading">>,
       <<"editToolCall",   "path",        "Editing">>,
       <<"writeToolCall",  "path",        "Writing">>,
       <<"deleteToolCall", "path",        "Deleting">>,
       <<"grepToolCall",   "pattern",     "Searching">>,
       <<"globToolCall",   "globPattern", "Finding">>,
       <<"lsToolCall",     "path",        "Listing">> >>

\* describe_tool_call without the test of the argument (line 273)
describe_tool_call_blank(tc) ==
    IF \E i \in DOMAIN TOOL_MAP : TOOL_MAP[i][1] = tc.key
    THEN LET i == CHOOSE k \in DOMAIN TOOL_MAP : TOOL_MAP[k][1] = tc.key
         IN  <<TOOL_MAP[i][3], ":", " ", BackQuote>> \o tc.arg \o <<BackQuote>>
    ELSE <<>>

\* The f-string verb, colon, space, back-quoted argument; the verb is kept as
\* one element, the argument character by character.  The empty result (no
\* event) is the empty sequence.
describe_tool_call(tc) ==
    IF \E i \in DOMAIN TOOL_MAP : TOOL_MAP[i][1] = tc.key
    THEN LET i == CHOOSE k \in DOMAIN TOOL_MAP : TOOL_MAP[k][1] = tc.key
             val == tc.arg
             short == IF Len(val) <= ToolArgMax
                      THEN val
                      ELSE SubSeq(val, 1, ToolArgKeep) \o <<".", ".", ".">>
         IN  IF val # <<>>
             THEN <<TOOL_MAP[i][3], ":", " ", BackQuote>> \o short \o <<BackQuote>>
             ELSE <<>>
    ELSE <<>>

(***************************************************************************)
(* iter_events, lines 191-215: the items of one assistant line, in order.  *)
(* A step record is kept for each fragment that reaches the reconciler.    *)
(***************************************************************************)
RECURSIVE reconcile_items(_, _)
reconcile_items(acc, items) ==
    IF items = <<>>
    THEN [acc |-> acc, ops |-> <<>>, steps |-> <<>>]
    ELSE LET item == Head(items)
             text == item.text
         IN  IF item.type # "text" \/ text = <<>>
             THEN reconcile_items(acc, Tail(items))
             ELSE LET r    == reconcile(acc, text)
                      rest == reconcile_items(r.acc, Tail(items))
                  IN  [acc   |-> rest.acc,
                       ops   |-> r.ops \o rest.ops,
                       steps |-> <<[text |-> text, before |-> acc,
                                    after |-> r.acc, ops |-> r.ops]>>
                                 \o rest.steps]

\* iter_events, line 184: not session_id
session_guard(sid) == ~Truthy(sid)

(***************************************************************************)
(* iter_events, lines 172-220: one stdout line.  The result is the new     *)
(* session_id and accumulated, the events yielded, the reconciler steps    *)
(* taken, and the exception raised (None when the line is processed).      *)
(***************************************************************************)
process_line(sid, acc, line) ==
    LET same == [session_id |-> sid, accumulated |-> acc, out |-> <<>>,
                 steps |-> <<>>, exc |-> <<>>]
    IN
    IF line.raw = "blank" THEN same
    ELSE IF line.raw = "garbage"
    THEN same   \* lines 179-182: except json.JSONDecodeError: continue
    ELSE IF line.json = "number"
    THEN \* ("session_id" in data) raises on a number, data.get on any non-dict
         IF session_guard(sid)
         THEN [same EXCEPT !.exc = Some(<<"TypeError">>)]
         ELSE [same EXCEPT !.exc = Some(<<"AttributeError">>)]
    ELSE IF line.json = "list"
    THEN [same EXCEPT !.exc = Some(<<"AttributeError">>)]
    ELSE
    LET newSid == session_guard(sid) /\ line.sid # <<>>
        sid1   == IF newSid THEN line.sid ELSE sid
        out1   == IF newSid THEN <<Ev("session_id", Get(line.sid))>> ELSE <<>>
    IN
    IF line.type = "assistant"
    THEN LET r == reconcile_items(acc, line.content)
         IN  [session_id |-> sid1, accumulated |-> r.acc,
              out |-> out1 \o r.ops, steps |-> r.steps, exc |-> <<>>]
    ELSE IF line.type = "tool_call" /\ line.subtype = "started"
    THEN LET desc == describe_tool_call(line.tool_call)
         IN  [session_id |-> sid1, accumulated |-> acc,
              out |-> out1 \o (IF desc # <<>> THEN <<Ev("tool", desc)>> ELSE <<>>),
              steps |-> <<>>, exc |-> <<>>]
    ELSE [session_id |-> sid1, accumulated |-> acc, out |-> out1,
          steps |-> <<>>, exc |-> <<>>]

(***************************************************************************)
(* str(int) and str.strip().                                               *)
(***************************************************************************)
Digits == <<"0", "1", "2", "3", "4", "5", "6", "7", "8", "9">>

RECURSIVE StrNat(_)
StrNat(n) ==
    IF n < 10 THEN <<Digits[n + 1]>>
    ELSE StrNat(n \div 10) \o <<Digits[(n % 10) + 1]>>

StrInt(n) == IF n < 0 THEN <<"-">> \o StrNat(-n) ELSE StrNat(n)

Whitespace == {" ", "\n", "\t", "\r"}

RECURSIVE LStrip(_)
LStrip(s) ==
    IF s # <<>> /\ Head(s) \in Whitespace THEN LStrip(Tail(s)) ELSE s

RECURSIVE RStrip(_)
RStrip(s) ==
    IF s # <<>> /\ s[Len(s)] \in Whitespace
    THEN RStrip(SubSeq(s, 1, Len(s) - 1))
    ELSE s

Strip(s) == RStrip(LStrip(s))

(***************************************************************************)
(* The subprocess.  A Popen object is a record:                            *)
(*   alive       the child is running                                      *)
(*   status      the exit status the child ended with (when not alive)     *)
(*   returncode  Popen.returncode: None until poll() or wait() collects it *)
(*   sigterm, sigkill   the signals sent to the child                      *)
(*   args, stdin, stdin_closed   the command line and what was written     *)
(* A process handle is None or such a record.                              *)
(***************************************************************************)
\* exit statuses of a child ended by SIGTERM and by SIGKILL
SigTermStatus == -15
SigKillStatus == -9

\* Popen.poll(): collects the exit status of a child that has ended
poll(p) ==
    IF p.returncode = <<>> /\ ~p.alive
    THEN [p EXCEPT !.returncode = Some(p.status)]
    ELSE p

\* What the environment decides during one kill_process call: whether
\* terminate() raises, whether the child ends within the 3 s of
\* wait(timeout=3), whether kill() raises.
KillEnvs == [term_raises : BOOLEAN, exits_in_time : BOOLEAN, kill_raises : BOOLEAN]
QuietKillEnvs == {e \in KillEnvs : ~e.term_raises /\ ~e.kill_raises}

\* Faulty variant: the inner try/except around kill() is missing.
kill_swallowed_not(e) == ~e.kill_raises

\* kill_process, lines 142-145: an exception of kill() is swallowed
kill_swallowed(e) == TRUE

\* kill_process, lines 141-143: the except branch, process.kill()
force_kill(p, e) ==
    IF e.kill_raises
    THEN p
    ELSE [p EXCEPT !.sigkill = @ + 1, !.alive = FALSE, !.status = SigKillStatus]

\* kill_process, lines 133-145.  The result is the handle afterwards and
\* whether the call raised.
kill_process(process, e) ==
    IF process = <<>>
    THEN [proc |-> process, raised |-> FALSE]
    ELSE
    LET p0 == poll(Get(process))
    IN
    IF p0.returncode # <<>>
    THEN [proc |-> Some(p0), raised |-> FALSE]
    ELSE
    IF e.term_raises
    THEN [proc |-> Some(force_kill(p0, e)), raised |-> ~kill_swallowed(e)]
    ELSE
    LET p1 == [p0 EXCEPT !.sigterm = @ + 1]
    IN
    IF ~e.exits_in_time
    THEN \* wait(timeout=3) raises TimeoutExpired
         [proc |-> Some(force_kill(p1, e)), raised |-> ~kill_swallowed(e)]
    ELSE \* the child ends on SIGTERM and wait collects its status
         [proc |-> Some([p1 EXCEPT !.alive = FALSE,
                                   !.status = SigTermStatus,
                                   !.returncode = Some(SigTermStatus)]),
          raised |-> FALSE]

(***************************************************************************)
(* The agent's script: the stdout lines of the protocol vocabulary, and    *)
(* what the child leaves behind at the end of its output.                  *)
(***************************************************************************)
sS1 == <<"s", "1">>
sS2 == <<"s", "2">>
sLs == <<"l", "s">>
sBoom == <<"b", "o", "o", "m", "\n">>

ShellTool == [key |-> "shellToolCall", arg |-> sLs]

\* a tool kind _TOOL_MAP does not list, and a listed kind without its argument
McpTool == [key |-> "mcpToolCall", arg |-> sLs]
ReadNothingTool == [key |-> "readToolCall", arg |-> <<>>]

MultiItemLine ==
    ObjectLine(Some(sS2), "assistant",
               << [type |-> "tool_use", text |-> sAB],
                  [type |-> "text", text |-> <<>>],
                  TextItem(sA),
                  TextItem(sAB) >>,
               "", NoTool)

\* lines that carry no single scripted fragment
ProtocolLines ==
    { BlankLine, GarbageLine,
      NonObjectLine("list"), NonObjectLine("number"),
      ObjectLine(Some(<<>>), "system", <<>>, "", NoTool),
      ObjectLine(Some(sS1), "system", <<>>, "", NoTool),
      ObjectLine(Some(sS2), "user", <<>>, "", NoTool),
      ObjectLine(<<>>, "tool_call", <<>>, "started", ShellTool),
      ObjectLine(<<>>, "tool_call", <<>>, "completed", ShellTool),
      ObjectLine(<<>>, "tool_call", <<>>, "started", McpTool),
      ObjectLine(<<>>, "tool_call", <<>>, "started", ReadNothingTool),
      MultiItemLine }

\* (exit status, what it wrote to stderr) of a child that ends by itself
Endings == { <<0, <<>>>>, <<0, sBoom>>, <<1, <<"\n">>>>, <<1, sBoom>> }

RunningProcess ==
    [alive |-> TRUE, status |-> 0, returncode |-> <<>>, sigterm |-> 0,
     sigkill |-> 0, args |-> <<>>, stdin |-> <<>>, stdin_closed |-> TRUE,
     stderr |-> <<>>]

(***************************************************************************)
(* iter_events as a generator.  pc is                                      *)
(*   "reading"    in the for loop, about to read a line                    *)
(*   "suspended"  in the for loop, suspended at the yield of an event      *)
(*   "at_error"   suspended at a yield of an error event (226 or 229)      *)
(*   "at_done"    suspended at the yield of the done event (236)           *)
(*   "finished"   returned                                                 *)
(*   "closed"     ended by close() (GeneratorExit) before the done event   *)
(***************************************************************************)
InLoop == pc \in {"reading", "suspended"}

\* the kill_process environments that matter for handle p
KillEnvsFor(p) ==
    IF p # <<>> /\ Get(p).alive
    THEN QuietKillEnvs
    ELSE {[term_raises |-> FALSE, exits_in_time |-> TRUE, kill_raises |-> FALSE]}

KillCall(p, k, e) == [before |-> p, after |-> k.proc, raised |-> k.raised, env |-> e]

\* Faulty variant: the cleanup is not in a finally clause and is skipped.
finally_block_skipped(p, e) ==
    /\ proc' = p
    /\ UNCHANGED killCalls

\* iter_events, lines 230-231: finally: kill_process(process), on handle p
finally_block(p, e) ==
    LET k == kill_process(p, e)
    IN  /\ proc' = k.proc
        /\ killCalls' = Append(killCalls, KillCall(p, k, e))

\* iter_events, lines 235-236: the done event
done_event(p) ==
    LET rc == IF Get(p).returncode # <<>> THEN Get(Get(p).returncode) ELSE 1
    IN  Ev("done", StrInt(rc))

\* iter_events, line 228: except Exception.  Every exception of the loop
\* body is an Exception, whatever its class.
stream_exception_caught(exc) == TRUE

\* iter_events, lines 171-220: the loop reads one line
ReadLine(line) ==
    /\ InLoop
    /\ Len(reads) < MaxLines
    /\ LET r == process_line(session_id, accumulated, line)
       IN  /\ session_id' = r.session_id
           /\ accumulated' = r.accumulated
           /\ reads' = Append(reads,
                  [line |-> line, out |-> r.out, exc |-> r.exc,
                   sid_before |-> session_id, sid_after |-> r.session_id,
                   acc_before |-> accumulated, acc_after |-> r.accumulated,
                   at |-> Len(events)])
           /\ steps' = steps \o r.steps
           /\ IF r.exc = <<>>
              THEN /\ events' = events \o r.out
                   /\ pc' = IF r.out = <<>> THEN "reading" ELSE "suspended"
                   /\ UNCHANGED <<proc, killCalls>>
              ELSE IF stream_exception_caught(Get(r.exc))
              THEN \* lines 228-229
                   /\ events' = events \o r.out \o <<Ev("error", Get(r.exc))>>
                   /\ pc' = "at_error"
                   /\ UNCHANGED <<proc, killCalls>>
              ELSE \* the exception leaves the generator through the finally block
                   /\ events' = events \o r.out
                   /\ pc' = "raised"
                   /\ \E e \in KillEnvsFor(proc) : finally_block(proc, e)
    /\ UNCHANGED <<vocab, cp, memvars, appvars>>

\* the agent sends a true delta
Delta ==
    \E d \in Pieces(vocab) :
        /\ ~finalSent
        /\ ReadLine(AssistantLine(d))
        /\ truth' = truth \o d
        /\ UNCHANGED <<scripted, finalSent>>

\* the agent re-sends the answer so far, with a new piece at its end
Cumulative ==
    \E d \in Pieces(vocab) :
        /\ ~finalSent
        /\ ReadLine(AssistantLine(truth \o d))
        /\ truth' = truth \o d
        /\ UNCHANGED <<scripted, finalSent>>

\* the agent re-sends the whole answer, once, at the end
FinalResend ==
    /\ ~finalSent
    /\ truth # <<>>
    /\ ReadLine(AssistantLine(truth))
    /\ finalSent' = TRUE
    /\ UNCHANGED <<truth, scripted>>

\* the agent re-sends a part of what the reconciler holds
SubsetResend ==
    /\ ~finalSent
    /\ Len(accumulated) >= 2
    /\ \E part \in { SubSeq(accumulated, 1, 1),
                     SubSeq(accumulated, 2, Len(accumulated)) } :
           ReadLine(AssistantLine(part))
    /\ scripted' = FALSE
    /\ UNCHANGED <<truth, finalSent>>

\* any other line of the protocol
ProtocolLine ==
    /\ vocab = "protocol"
    /\ \E line \in ProtocolLines :
           /\ ReadLine(line)
           /\ scripted' = (scripted /\ line.type # "assistant")
    /\ UNCHANGED <<truth, finalSent>>

\* iter_events, lines 171 and 228-229: reading process.stdout raises
ReadFails ==
    /\ InLoop
    /\ IF stream_exception_caught(<<"OSError">>)
       THEN /\ events' = events \o <<Ev("error", <<"OSError">>)>>
            /\ pc' = "at_error"
            /\ UNCHANGED <<proc, killCalls>>
       ELSE /\ pc' = "raised"
            /\ \E e \in KillEnvsFor(proc) : finally_block(proc, e)
            /\ UNCHANGED events
    /\ UNCHANGED <<vocab, session_id, accumulated, reads, steps, truth,
                   scripted, finalSent, cp, memvars, appvars>>

\* iter_events, lines 222-236: stdout is at its end; process.wait() returns
\* the exit status, stderr is read when it is not 0
EndOfOutput ==
    /\ InLoop
    /\ \E end \in Endings :
         LET exited == Some([Get(proc) EXCEPT !.alive = FALSE, !.status = end[1],
                                              !.returncode = Some(end[1]),
                                              !.stderr = end[2]])
             stderr == Strip(end[2])
         IN  IF end[1] # 0 /\ stderr # <<>>
             THEN /\ proc' = exited
                  /\ events' = events \o <<Ev("error", stderr)>>
                  /\ pc' = "at_error"
                  /\ UNCHANGED killCalls
             ELSE \* nothing is yielded before the finally block
                  /\ \E e \in KillEnvsFor(exited) : finally_block(exited, e)
                  /\ events' = events \o <<done_event(exited)>>
                  /\ pc' = "at_done"
    /\ UNCHANGED <<vocab, session_id, accumulated, reads, steps, truth,
                   scripted, finalSent, cp, memvars, appvars>>

\* the consumer asks for the next event after an error event:
\* lines 230-236
ResumeAfterError ==
    /\ pc = "at_error"
    /\ \E e \in KillEnvsFor(proc) :
           /\ finally_block(proc, e)
           /\ events' = events \o <<done_event(kill_process(proc, e).proc)>>
    /\ pc' = "at_done"
    /\ UNCHANGED <<vocab, session_id, accumulated, reads, steps, truth,
                   scripted, finalSent, cp, memvars, appvars>>

\* the consumer asks for the next event after the done event: the generator
\* returns
Finish ==
    /\ pc = "at_done"
    /\ pc' = "finished"
    /\ UNCHANGED <<vocab, session_id, accumulated, events, proc, reads, steps,
                   truth, scripted, finalSent, killCalls, cp, memvars, appvars>>

\* the consumer abandons the generator: close() raises GeneratorExit at the
\* yield where it is suspended; inside the try statement the finally block
\* (lines 230-233) runs
Close ==
    /\ pc \in {"suspended", "at_error", "at_done"}
    /\ IF pc = "at_done"
       THEN UNCHANGED <<proc, killCalls>>
       ELSE \E e \in KillEnvsFor(proc) : finally_block(proc, e)
    /\ pc' = "closed"
    /\ UNCHANGED <<vocab, session_id, accumulated, events, reads, steps,
                   truth, scripted, finalSent, cp, memvars, appvars>>

NoCall == [called |-> FALSE]

Init ==
    /\ vocab \in Vocabularies
    /\ pc = "reading"
    /\ session_id = <<>>
    /\ accumulated = <<>>
    /\ events = <<>>
    /\ proc = Some(RunningProcess)
    /\ reads = <<>>
    /\ steps = <<>>
    /\ truth = <<>>
    /\ scripted = TRUE
    /\ finalSent = FALSE
    /\ killCalls = <<>>
    /\ cp = NoCall
    /\ NoMemory
    /\ NoApp

Next ==
    \/ Delta
    \/ Cumulative
    \/ FinalResend
    \/ SubsetResend
    \/ ProtocolLine
    \/ ReadFails
    \/ EndOfOutput
    \/ ResumeAfterError
    \/ Finish
    \/ Close

Spec == Init /\ [][Next]_vars

(***************************************************************************)
(* create_process.                                                         *)
(***************************************************************************)
NOT_FOUND_MSG == "Cursor CLI (agent) not found."

\* What the environment decides during one create_process call: the path
\* _find_agent_cmd returns, the outcome of subprocess.Popen, of
\* process.stdin.write and of process.stdin.close.
PopenOutcomes == {"ok", "FileNotFoundError", "PermissionError"}
PipeOutcomes  == {"ok", "BrokenPipeError"}
SpawnEnvs ==
    [agent : {"agent"}, popen : PopenOutcomes,
     write : PipeOutcomes, close : PipeOutcomes]

\* create_process, lines 100-112: the command line
agent_args(agent, model, mode, resume_session) ==
    <<agent, "-p", "--output-format", "stream-json",
      "--stream-partial-output", "-f">>
    \o (IF model # "" THEN <<"-m", model>> ELSE <<>>)
    \o (IF mode # "" /\ mode # "agent" THEN <<"--mode", mode>> ELSE <<>>)
    \o (IF resume_session # "" THEN <<"--resume", resume_session>> ELSE <<>>)

\* create_process, lines 89-130.  None and "" arguments are both "".  The
\* result is the (process, error) returned, or the exception raised, and the
\* child that was started (also when the call raised after starting it).
create_process(prompt, cwd, model, mode, resume_session, e) ==
    LET args  == agent_args(e.agent, model, mode, resume_session)
        child == [RunningProcess EXCEPT !.args = args, !.stdin_closed = FALSE]
    IN
    IF e.popen = "FileNotFoundError"
    THEN [process |-> <<>>, err |-> Some(NOT_FOUND_MSG), raised |-> <<>>,
          child |-> <<>>]
    ELSE IF e.popen # "ok"
    THEN [process |-> <<>>, err |-> <<>>, raised |-> Some(e.popen),
          child |-> <<>>]
    ELSE IF e.write # "ok"
    THEN [process |-> <<>>, err |-> <<>>, raised |-> Some(e.write),
          child |-> Some(child)]
    ELSE IF e.close # "ok"
    THEN [process |-> <<>>, err |-> <<>>, raised |-> Some(e.close),
          child |-> Some([child EXCEPT !.stdin = prompt])]
    ELSE LET started == [child EXCEPT !.stdin = prompt, !.stdin_closed = TRUE]
         IN  [process |-> Some(started), err |-> <<>>, raised |-> <<>>,
              child |-> Some(started)]

(***************************************************************************)
(* The supervisor on its own: one create_process call, then kill_process   *)
(* calls by the caller on the handle it was given, while the child may end *)
(* by itself.                                                              *)
(***************************************************************************)
Prompts  == {"why does the pump stall?", "hi"}
Models   == {"", "gpt-5"}
Modes    == {"agent", "ask", ""}
Sessions == {"", "sess-1"}
Cwds     == {"/work"}
ExitStatuses == {0, 1}

CreateProcess ==
    /\ pc = "supervisor"
    /\ ~cp.called
    /\ \E prompt \in Prompts, cwd \in Cwds, model \in Models, mode \in Modes,
          resume \in Sessions, e \in SpawnEnvs :
         LET r == create_process(prompt, cwd, model, mode, resume, e)
         IN  /\ cp' = [called |-> TRUE, prompt |-> prompt, cwd |-> cwd,
                       model |-> model, mode |-> mode, resume |-> resume,
                       result |-> r]
             /\ proc' = r.process
    /\ UNCHANGED <<vocab, pc, session_id, accumulated, events, reads, steps,
                   truth, scripted, finalSent, killCalls, memvars, appvars>>

\* the caller calls kill_process on the handle create_process returned
KillProcess ==
    /\ pc = "supervisor"
    /\ cp.called
    /\ cp.result.raised = <<>>
    /\ Len(killCalls) < MaxKills
    /\ \E e \in KillEnvs :
         LET k == kill_process(proc, e)
         IN  /\ proc' = k.proc
             /\ killCalls' = Append(killCalls, KillCall(proc, k, e))
    /\ UNCHANGED <<vocab, pc, session_id, accumulated, events, reads, steps,
                   truth, scripted, finalSent, cp, memvars, appvars>>

\* the child ends by itself
ChildExits ==
    /\ pc = "supervisor"
    /\ proc # <<>>
    /\ Get(proc).alive
    /\ \E st \in ExitStatuses :
         proc' = Some([Get(proc) EXCEPT !.alive = FALSE, !.status = st])
    /\ UNCHANGED <<vocab, pc, session_id, accumulated, events, reads, steps,
                   truth, scripted, finalSent, killCalls, cp, memvars, appvars>>

\* stream_response, lines 239-252: create_process, then either the two events
\* of a reported spawn failure or the events of iter_events on the process
\* ("delegated": that generator is the specification Spec).  An exception
\* create_process raises leaves the generator before any event.
stream_response(r) ==
    IF r.raised # <<>>
    THEN [events |-> <<>>, raised |-> r.raised, ends |-> "stream_raised"]
    ELSE IF r.err # <<>>
    THEN [events |-> <<Ev("error", Get(r.err)), Ev("done", <<"1">>)>>,
          raised |-> <<>>, ends |-> "stream_failed"]
    ELSE [events |-> <<>>, raised |-> <<>>, ends |-> "stream_delegated"]

\* a caller consumes stream_response instead of calling create_process
StreamResponse ==
    /\ pc = "supervisor"
    /\ ~cp.called
    /\ \E prompt \in Prompts, cwd \in Cwds, model \in Models, mode \in Modes,
          resume \in Sessions, e \in SpawnEnvs :
         LET r  == create_process(prompt, cwd, model, mode, resume, e)
             sr == stream_response(r)
         IN  /\ cp' = [called |-> TRUE, prompt |-> prompt, cwd |-> cwd,
                       model |-> model, mode |-> mode, resume |-> resume,
                       result |-> r]
             /\ proc' = r.process
             /\ events' = sr.events
             /\ pc' = sr.ends
    /\ UNCHANGED <<vocab, session_id, accumulated, reads, steps, truth,
                   scripted, finalSent, killCalls, memvars, appvars>>

InitProc ==
    /\ vocab = "short"
    /\ pc = "supervisor"
    /\ session_id = <<>>
    /\ accumulated = <<>>
    /\ events = <<>>
    /\ proc = <<>>
    /\ reads = <<>>
    /\ steps = <<>>
    /\ truth = <<>>
    /\ scripted = TRUE
    /\ finalSent = FALSE
    /\ killCalls = <<>>
    /\ cp = NoCall
    /\ NoMemory
    /\ NoApp

NextProc ==
    \/ CreateProcess
    \/ KillProcess
    \/ ChildExits
    \/ StreamResponse

SpecProc == InitProc /\ [][NextProc]_vars

(***************************************************************************)
(* What a caller holds after the events it has received: a text event      *)
(* appends its payload, a text_replace event discards everything so far    *)
(* and sets its payload, every other event leaves the text alone.          *)
(***************************************************************************)
RECURSIVE RenderFrom(_, _)
RenderFrom(shown, evs) ==
    IF evs = <<>> THEN shown
    ELSE LET e == Head(evs)
         IN  RenderFrom(IF e[1] = "text" THEN shown \o e[2]
                        ELSE IF e[1] = "text_replace" THEN e[2]
                        ELSE shown,
                        Tail(evs))

Render(evs) == RenderFrom(<<>>, evs)

IsTextOp(e) == e[1] \in {"text", "text_replace"}
TextOps(evs) == SelectSeq(evs, IsTextOp)

\* the text operations of the first n reconciler steps, in order
RECURSIVE OpsUpTo(_)
OpsUpTo(n) == IF n = 0 THEN <<>> ELSE OpsUpTo(n - 1) \o steps[n].ops

FedTexts == [i \in DOMAIN steps |-> steps[i].text]

\* C1: at every point of the stream, folding the text operations emitted so
\* far (append on text, discard-and-set on text_replace) gives exactly the
\* reconciler's accumulated string: after every fragment, and at the end of
\* every line.
C1_FoldIsAccumulated ==
    /\ Render(events) = accumulated
    /\ TextOps(events) = OpsUpTo(Len(steps))
    /\ \A n \in DOMAIN steps : Render(OpsUpTo(n)) = steps[n].after

\* C1 witness: a replacement has been emitted and an append after it.
C1_Witness ==
    \E i, j \in DOMAIN events :
        /\ i < j
        /\ events[i][1] = "text_replace"
        /\ events[j][1] = "text"
        /\ Len(accumulated) > Len(events[i][2])

\* C2: for a stream scripted from true deltas, cumulative re-sends and one
\* final full re-send, once the final re-send has been processed the folded
\* text is the true final answer (nothing lost, nothing duplicated).
C2_NoInformationLoss ==
    (scripted /\ finalSent) => Render(events) = truth

\* C3: a fragment that starts with accumulated emits append of the tail
\* text[len(accumulated):] (nothing when the tail is empty) and leaves
\* accumulated equal to the fragment; the fragments Hello, Hello world,
\* Hello world! give append(Hello), append( world), append(!) and the final
\* state Hello world!.
C3_CumulativeTail ==
    /\ \A n \in DOMAIN steps :
         LET st   == steps[n]
             tail == SubSeq(st.text, Len(st.before) + 1, Len(st.text))
         IN  (/\ Len(st.before) <= Len(st.text)
              /\ \A k \in 1..Len(st.before) : st.text[k] = st.before[k])
             => /\ st.after = st.text
                /\ st.ops = IF tail = <<>> THEN <<>> ELSE <<Ev("text", tail)>>
    /\ FedTexts = <<sHello, sHello \o sWorld, sHello \o sWorld \o sBang>>
       => /\ TextOps(events) =
                <<Ev("text", sHello), Ev("text", sWorld), Ev("text", sBang)>>
          /\ accumulated = sHello \o sWorld \o sBang

\* C3 witness: the three fragments of the example have been processed.
C3_Witness ==
    /\ FedTexts = <<sHello, sHello \o sWorld, sHello \o sWorld \o sBang>>
    /\ Len(TextOps(events)) = 3

IsStrictSubstring(sub, s) ==
    /\ Len(sub) < Len(s)
    /\ \E k \in 0..(Len(s) - Len(sub)) :
           \A m \in 1..Len(sub) : s[k + m] = sub[m]

\* C4: a fragment that is a strict substring of accumulated (a proper prefix
\* included) emits no operation and leaves accumulated unchanged.
C4_SubsetSuppressed ==
    \A n \in DOMAIN steps :
        IsStrictSubstring(steps[n].text, steps[n].before)
        => /\ steps[n].ops = <<>>
           /\ steps[n].after = steps[n].before

\* C4 witness: a strict substring that is not a prefix has been fed, and a
\* proper prefix has been fed.
C4_Witness ==
    /\ \E n \in DOMAIN steps :
           /\ IsStrictSubstring(steps[n].text, steps[n].before)
           /\ steps[n].text[1] # steps[n].before[1]
    /\ \E n \in DOMAIN steps :
           /\ IsStrictSubstring(steps[n].text, steps[n].before)
           /\ steps[n].text[1] = steps[n].before[1]

Unrelated(text, acc) ==
    /\ ~StartsWith(text, acc)
    /\ ~StartsWith(acc, text)
    /\ ~IsStrictSubstring(text, acc)

\* C5: a fragment that neither extends accumulated nor is a prefix or
\* substring of it emits exactly one replace(text) and sets accumulated to
\* text when len(text) > 100 and len(text) >= 0.5 * len(accumulated), and
\* otherwise is appended: accumulated + text, append(text).  After
\* 'Investigating the issue.' a 150-character rewritten answer gives exactly
\* replace(that text).
C5_ReplaceOrAppend ==
    /\ \A n \in DOMAIN steps :
         LET st == steps[n]
         IN  Unrelated(st.text, st.before)
             => IF Len(st.text) > 100 /\ 2 * Len(st.text) >= Len(st.before)
                THEN /\ st.ops = <<Ev("text_replace", st.text)>>
                     /\ st.after = st.text
                ELSE /\ st.ops = <<Ev("text", st.text)>>
                     /\ st.after = st.before \o st.text
    /\ \A n \in DOMAIN steps :
         (steps[n].before = sInvestigating /\ steps[n].text = sRewritten150)
         => steps[n].ops = <<Ev("text_replace", sRewritten150)>>

\* C5 witness: the rewritten answer has been fed after 'Investigating the
\* issue.'.
C5_Witness ==
    \E n \in DOMAIN steps :
        /\ steps[n].before = sInvestigating
        /\ steps[n].text = sRewritten150
        /\ accumulated = sRewritten150

SessionEvents == SelectSeq(events, LAMBDA e : e[1] = "session_id")
SidReads == SelectSeq(reads, LAMBDA r : r.line.raw = "json" /\ r.line.json = "object"
                                         /\ r.line.sid # <<>>)

\* C6: at most one session_id event over a stream: the first line carrying
\* a session_id field produces exactly one, with that value, and every later
\* line carrying the field produces none, whatever its value.
C6_SessionIdOnce ==
    /\ Len(SessionEvents) <= 1
    /\ SidReads # <<>>
       => SessionEvents = <<Ev("session_id", Get(SidReads[1].line.sid))>>

NotOneJsonObject(line) ==
    \/ line.raw = "garbage"
    \/ line.raw = "json" /\ line.json # "object"

\* C7: a line that cannot be parsed as one JSON object is skipped: no event,
\* no change of the reconciler state, and the stream goes on (no exception
\* ends the loop).
C7_UnparsableSkipped ==
    \A n \in DOMAIN reads :
        NotOneJsonObject(reads[n].line)
        => /\ reads[n].out = <<>>
           /\ reads[n].exc = <<>>
           /\ reads[n].acc_after = reads[n].acc_before
           /\ reads[n].sid_after = reads[n].sid_before

\* C8: create_process never raises: a binary that cannot be found gives
\* (None, not-found message), every other failure of the spawn or of the
\* write to stdin gives (None, error), success gives (process, None) with the
\* prompt written and stdin closed.
C8_CreateNeverRaises ==
    cp.called
    => /\ cp.result.raised = <<>>
       /\ \/ cp.result.process = <<>> /\ cp.result.err # <<>>
          \/ /\ cp.result.process # <<>>
             /\ cp.result.err = <<>>
             /\ Get(cp.result.process).stdin = cp.prompt
             /\ Get(cp.result.process).stdin_closed

Signals(p) == <<p.sigterm, p.sigkill>>

\* C9: kill_process never raises.  On a running process it sends SIGTERM,
\* waits (3 s), and force-kills when the child has not ended by then; on
\* None, on a child that has already ended, and on a second call after the
\* child has ended it sends nothing and changes nothing but the collected
\* exit status.
C9_KillProcess ==
    \A n \in DOMAIN killCalls :
        LET k == killCalls[n]
        IN  /\ ~k.raised
            /\ k.before = <<>> => k.after = <<>>
            /\ k.before # <<>> =>
                 LET b == Get(k.before)
                     a == Get(k.after)
                 IN  /\ ~b.alive =>
                            /\ Signals(a) = Signals(b)
                            /\ a.returncode = Some(b.status)
                            /\ a = [b EXCEPT !.returncode = Some(b.status)]
                     /\ (b.alive /\ ~k.env.term_raises) =>
                            a.sigterm = b.sigterm + 1
                     /\ (b.alive /\ ~k.env.term_raises /\ k.env.exits_in_time) =>
                            /\ ~a.alive
                            /\ a.sigkill = b.sigkill
                            /\ a.returncode = Some(SigTermStatus)
                     /\ (b.alive /\ ~k.env.kill_raises
                           /\ (k.env.term_raises \/ ~k.env.exits_in_time)) =>
                            /\ a.sigkill = b.sigkill + 1
                            /\ ~a.alive
                     /\ (n > 1 /\ ~Get(killCalls[n - 1].after).alive) =>
                            Signals(a) = Signals(b)

\* C9 witness: a first call has timed out and force-killed the child, and a
\* second call has been made on the same handle.
C9_Witness ==
    /\ Len(killCalls) >= 2
    /\ killCalls[1].before # <<>>
    /\ Get(killCalls[1].before).alive
    /\ Get(killCalls[1].after).sigkill = 1
    /\ Get(killCalls[1].after).sigterm = 1

ExceptionsRead ==
    {n \in DOMAIN reads : reads[n].exc # <<>>}

AppErrorPrefix ==
    <<"*", "*", "E", "r", "r", "o", "r", ":", "*", "*", " ">>
WorkerErrorPrefix == <<"E", "r", "r", "o", "r", ":", " ">>

\* Faulty variant: the error text is recorded whatever was received before.
error_recorded_always(full_response) == TRUE

\* app.py line 566, knowledge.py line 83: (not full_response)
error_recorded(full_response) == full_response = <<>>

\* app.py lines 551-574: one turn of the loop, on event e
app_on_event(full_response, e) ==
    IF e[1] = "text" THEN full_response \o e[2]
    ELSE IF e[1] = "tool" THEN full_response
    ELSE IF e[1] = "session_id" THEN full_response
    ELSE IF e[1] = "error" /\ error_recorded(full_response)
    THEN AppErrorPrefix \o e[2]
    ELSE full_response

\* app.py lines 549-574: full_response after the loop has been handed evs
RECURSIVE app_loop(_, _)
app_loop(full_response, evs) ==
    IF evs = <<>> THEN full_response
    ELSE app_loop(app_on_event(full_response, Head(evs)), Tail(evs))

\* knowledge.py lines 78-86: one turn of the loop, on event e
worker_on_event(full_response, e) ==
    IF e[1] = "text" THEN full_response \o e[2]
    ELSE IF e[1] = "text_replace" THEN e[2]
    ELSE IF e[1] = "error" /\ error_recorded(full_response)
    THEN WorkerErrorPrefix \o e[2]
    ELSE full_response

\* knowledge.py lines 77-86: full_response after the loop has been handed
\* evs; the loop is left at the done event
RECURSIVE worker_loop(_, _)
worker_loop(full_response, evs) ==
    IF evs = <<>> THEN full_response
    ELSE IF Head(evs)[1] = "done" THEN full_response
    ELSE worker_loop(worker_on_event(full_response, Head(evs)), Tail(evs))

\* the child ended by itself with a non-zero status and text on stderr
StderrFailure ==
    /\ proc # <<>>
    /\ Get(proc).returncode # <<>>
    /\ Get(Get(proc).returncode) # 0
    /\ Strip(Get(proc).stderr) # <<>>

ErrorsAt == {i \in DOMAIN events : events[i][1] = "error"}

\* C11: a non-zero exit with text on stderr gives exactly one error event,
\* carrying the stripped stderr text.  In both callers, when a text
\* operation came before it, full_response after the error event (and after
\* every later event) is what it was before it, and is not empty; when none
\* came before it, full_response is the caller's error prefix followed by
\* the stderr text.
C11_StderrErrorRecorded ==
    StderrFailure =>
        /\ Cardinality(ErrorsAt) = 1
        /\ \A i \in ErrorsAt :
             LET before == SubSeq(events, 1, i - 1)
                 stderr == Strip(Get(proc).stderr)
             IN  /\ events[i] = Ev("error", stderr)
                 /\ IF TextOps(before) # <<>>
                    THEN /\ app_loop(<<>>, events) = app_loop(<<>>, before)
                         /\ app_loop(<<>>, events) # <<>>
                         /\ worker_loop(<<>>, events) = worker_loop(<<>>, before)
                         /\ worker_loop(<<>>, events) = accumulated
                         /\ accumulated # <<>>
                    ELSE /\ app_loop(<<>>, events) = AppErrorPrefix \o stderr
                         /\ worker_loop(<<>>, events) = WorkerErrorPrefix \o stderr

C11_Witness ==
    /\ StderrFailure
    /\ pc = "finished"
    /\ TextOps(events) # <<>>
    /\ events[Len(events) - 1] = Ev("error", Strip(sBoom))
    /\ app_loop(<<>>, events) = accumulated

\* the other case of C11: the error text is the recorded response
C11_WitnessNoText ==
    /\ StderrFailure
    /\ pc = "finished"
    /\ TextOps(events) = <<>>
    /\ worker_loop(<<>>, events) = WorkerErrorPrefix \o Strip(sBoom)

(***************************************************************************)
(* Diagnostic state (src/memory.py).  A DiagnosticState object is a        *)
(* record; an Optional[str] field is None (<<>>) or <<string>>, a list     *)
(* field is a sequence of strings.                                         *)
(***************************************************************************)
\* DiagnosticState(), lines 93-100: the defaults of the dataclass
DefaultState ==
    [device_ip |-> <<>>, device_name |-> <<>>, last_log_file |-> <<>>,
     downloaded_logs |-> <<>>, findings |-> <<>>, hypotheses |-> <<>>,
     root_causes |-> <<>>, status |-> "idle"]

\* Python's (x in list)
InList(x, list) == \E i \in DOMAIN list : list[i] = x

\* characters that have no place in a string of this module
WideColon == "U+FF1A"
Bullet == "U+2022"

Letters ==
    <<"a", "b", "c", "d", "e", "f", "g", "h", "i", "j", "k", "l", "m",
      "n", "o", "p", "q", "r", "s", "t", "u", "v", "w", "x", "y", "z">>
Capitals ==
    <<"A", "B", "C", "D", "E", "F", "G", "H", "I", "J", "K", "L", "M",
      "N", "O", "P", "Q", "R", "S", "T", "U", "V", "W", "X", "Y", "Z">>

LetterSet == {Letters[k] : k \in DOMAIN Letters}
CapitalSet == {Capitals[k] : k \in DOMAIN Capitals}
DigitSet == {Digits[k] : k \in DOMAIN Digits}
LowerOf ==
    [c \in CapitalSet |-> Letters[CHOOSE k \in DOMAIN Capitals : Capitals[k] = c]]

\* re.IGNORECASE compares characters without their case
Lower(c) == IF c \in CapitalSet THEN LowerOf[c] ELSE c

\* the character classes of the patterns: \s, \d, \w, [\d\-], [ \t]
InClass(c, class) ==
    CASE class = "space" -> c \in Whitespace
      [] class = "digit" -> c \in DigitSet
      [] class = "word"  -> c \in DigitSet \/ c = "_" \/ c \in LetterSet
                            \/ c \in CapitalSet
      [] class = "digit or hyphen" -> c \in DigitSet \/ c = "-"
      [] class = "blank" -> c \in {" ", "\t"}

\* the literal lit stands in s at position i (positions count from 1)
MatchAt(s, i, lit) ==
    /\ i + Len(lit) - 1 <= Len(s)
    /\ \A k \in 1..Len(lit) : s[i + k - 1] = lit[k]

\* the first position from i on that holds no character of the class,
\* Len(s) + 1 when there is none: where a greedy class* stops
SkipWhile(s, i, class) ==
    IF i > Len(s) THEN i
    ELSE CHOOSE j \in i..(Len(s) + 1) :
             /\ j = Len(s) + 1 \/ ~InClass(s[j], class)
             /\ \A k \in i..(j - 1) : InClass(s[k], class)

\* the position of the first "\n" from i on, Len(s) + 1 when there is none
LineEnd(s, i) ==
    IF i > Len(s) THEN i
    ELSE CHOOSE j \in i..(Len(s) + 1) :
             /\ j = Len(s) + 1 \/ s[j] = "\n"
             /\ \A k \in i..(j - 1) : s[k] # "\n"

\* str.rstrip(".")
RECURSIVE RStripDots(_)
RStripDots(s) ==
    IF s # <<>> /\ s[Len(s)] = "."
    THEN RStripDots(SubSeq(s, 1, Len(s) - 1))
    ELSE s

\* m.group(1).strip().rstrip("."), lines 171, 176 and 181
Clean(s) == RStripDots(Strip(s))

NoMatch == [end |-> 0, group |-> <<>>]

\* the alternatives of _ROOT_CAUSE_RE (line 146) and of _HYPOTHESIS_RE (line 149)
RootCauseLabels ==
    { <<"R", "o", "o", "t", " ", "C", "a", "u", "s", "e">>,
      <<"R", "o", "o", "t", " ", "c", "a", "u", "s", "e">>,
      <<"C", "o", "n", "f", "i", "r", "m", "e", "d">>,
      <<"R", "e", "s", "o", "l", "v", "e", "d">> }
HypothesisLabels ==
    { <<"h", "y", "p", "o", "t", "h", "e", "s", "i", "s">>,
      <<"p", "o", "s", "s", "i", "b", "l", "e", " ", "c", "a", "u", "s", "e">>,
      <<"s", "u", "s", "p", "e", "c", "t">>,
      <<"m", "a", "y", " ", "b", "e", " ", "c", "a", "u", "s", "e", "d", " ", "b",
        "y">>,
      <<"l", "i", "k", "e", "l", "y">> }

\* the labels of the set that stand in s at position i
LabelsAt(s, i, labels, ignorecase) ==
    {l \in labels :
        /\ i + Len(l) - 1 <= Len(s)
        /\ \A k \in 1..Len(l) :
             (IF ignorecase THEN Lower(s[i + k - 1]) ELSE s[i + k - 1]) = l[k]}

\* re.match at position i of  (?:labels)\s*[:U+FF1A]\s*(.+?)(?:\n|$)
\* (lines 145-151): a label, a colon, then the rest of the first line that
\* holds a character which is not white space.  No two labels stand at the
\* same position.  When only white space follows the colon the group can
\* only hold white space, which strip() empties and which the length test of
\* lines 172 and 177 refuses; nothing follows it to be matched.
label_match(s, i, labels, ignorecase) ==
    LET found == LabelsAt(s, i, labels, ignorecase)
    IN  IF found = {} THEN NoMatch
        ELSE LET l == CHOOSE x \in found : TRUE
                 colon == SkipWhile(s, i + Len(l), "space")
             IN  IF colon > Len(s) \/ s[colon] \notin {":", WideColon}
                 THEN NoMatch
                 ELSE LET first == SkipWhile(s, colon + 1, "space")
                          eol == LineEnd(s, first)
                      IN  IF first > Len(s)
                          THEN [end |-> Len(s) + 1, group |-> <<>>]
                          ELSE [end |-> IF eol <= Len(s) THEN eol + 1 ELSE eol,
                                group |-> SubSeq(s, first, eol - 1)]

\* the least e >= i with "**" at e + 1 and no "\n" in s[i..e]; 0 if none:
\* where the lazy (.+?) of _FINDING_RE stops
BoldEnd(s, i) ==
    LET ends == {e \in i..(LineEnd(s, i) - 1) : MatchAt(s, e + 1, <<"*", "*">>)}
    IN  IF ends = {} THEN 0
        ELSE CHOOSE e \in ends : \A x \in ends : e <= x

\* re.match at position i of  ^[ \t]*[-U+2022]\s+\*\*(.+?)\*\*  with
\* re.MULTILINE (lines 152-155)
finding_match(s, i) ==
    IF ~(i = 1 \/ (i > 1 /\ i <= Len(s) + 1 /\ s[i - 1] = "\n")) THEN NoMatch
    ELSE LET bullet == SkipWhile(s, i, "blank")
             stars  == SkipWhile(s, bullet + 1, "space")
         IN  IF bullet > Len(s) \/ s[bullet] \notin {"-", Bullet} THEN NoMatch
             ELSE IF stars = bullet + 1 THEN NoMatch
             ELSE IF ~MatchAt(s, stars, <<"*", "*">>) THEN NoMatch
             ELSE LET e == BoldEnd(s, stars + 2)
                  IN  IF e = 0 THEN NoMatch
                      ELSE [end |-> e + 3, group |-> SubSeq(s, stars + 2, e)]

sInstrument == <<"I", "n", "s", "t", "r", "u", "m", "e", "n", "t">>
sDotLog == <<".", "l", "o", "g">>

\* \d{n} at position i
DigitsAt(s, i, n) ==
    /\ i + n - 1 <= Len(s)
    /\ \A k \in i..(i + n - 1) : InClass(s[k], "digit")

\* re.match at position i of
\*   (Instrument\w+_\d{4}-\d{2}-\d{2}_[\d\-]+(?:\.\d+)?\.log)     (line 143)
\* The greedy \w+ runs over letters, digits and "_" and is given back as
\* far as the "_" before the date: the four digits of the year end the run
\* of word characters, since "-" follows them.
log_file_match(s, i) ==
    IF ~MatchAt(s, i, sInstrument) THEN NoMatch
    ELSE LET wend == SkipWhile(s, i + 10, "word")
             us   == wend - 5
             run  == us + 12
             rend == SkipWhile(s, run, "digit or hyphen")
             frac == SkipWhile(s, rend + 1, "digit")
         IN  IF ~(/\ us > i + 10
                  /\ s[us] = "_"
                  /\ DigitsAt(s, us + 1, 4) /\ MatchAt(s, us + 5, <<"-">>)
                  /\ DigitsAt(s, us + 6, 2) /\ MatchAt(s, us + 8, <<"-">>)
                  /\ DigitsAt(s, us + 9, 2) /\ MatchAt(s, us + 11, <<"_">>)
                  /\ rend > run)
             THEN NoMatch
             ELSE IF /\ MatchAt(s, rend, <<".">>) /\ frac > rend + 1
                     /\ MatchAt(s, frac, sDotLog)
             THEN [end |-> frac + 4, group |-> SubSeq(s, i, frac + 3)]
             ELSE IF MatchAt(s, rend, sDotLog)
             THEN [end |-> rend + 4, group |-> SubSeq(s, i, rend + 3)]
             ELSE NoMatch

\* re.match of one of the four patterns at position i
match_at(pattern, s, i) ==
    CASE pattern = "log_file"   -> log_file_match(s, i)
      [] pattern = "root_cause" -> label_match(s, i, RootCauseLabels, FALSE)
      [] pattern = "hypothesis" -> label_match(s, i, HypothesisLabels, TRUE)
      [] pattern = "finding"    -> finding_match(s, i)

\* the groups of the matches taken from position i on, given the match m[j]
\* of the pattern at every position j: the matches are taken from left to
\* right and do not overlap
RECURSIVE groups_from(_, _)
groups_from(i, m) ==
    LET hits == {j \in i..Len(m) : m[j].end # 0}
    IN  IF hits = {} THEN <<>>
        ELSE LET j == CHOOSE h \in hits : \A x \in hits : h <= x
             IN  <<m[j].group>> \o groups_from(m[j].end, m)

\* [m.group(1) for m in pattern.finditer(s)]
finditer(pattern, s) ==
    groups_from(1, [j \in 1..Len(s) |-> match_at(pattern, s, j)])

RootCauseMinLen == 20
NoteMinLen == 10
NoteMaxLen == 200

\* Faulty variant: an entry is appended whether or not the list holds it.
append_new_always(list, x) == Append(list, x)

\* lines 166-167, 172-173, 177-178, 182-183:
\*   if x not in list: list.append(x)
append_new(list, x) == IF InList(x, list) THEN list ELSE Append(list, x)

\* lines 164-168: the loop over the log file names found
RECURSIVE add_logs(_, _)
add_logs(st, names) ==
    IF names = <<>> THEN st
    ELSE LET log_name == Head(names)
         IN  add_logs(IF ~InList(log_name, st.downloaded_logs)
                      THEN [st EXCEPT
                              !.downloaded_logs = append_new(@, log_name),
                              !.last_log_file = Some(log_name)]
                      ELSE st,
                      Tail(names))

\* lines 170-183: one of the three loops over the groups found, on one list
RECURSIVE add_notes(_, _, _)
add_notes(list, groups, minlen) ==
    IF groups = <<>> THEN list
    ELSE LET note == Clean(Head(groups))
         IN  add_notes(IF minlen < Len(note) /\ Len(note) < NoteMaxLen
                       THEN append_new(list, note)
                       ELSE list,
                       Tail(groups), minlen)

\* Faulty variant: a state with a known device is always investigating.
next_status_reopened(st) ==
    IF Truthy(st.device_ip) THEN "investigating" ELSE st.status

\* Faulty variant: the second test is an elif of the first.
next_status_one_step(st) ==
    IF Truthy(st.device_ip) /\ st.status = "idle" THEN "investigating"
    ELSE IF st.root_causes # <<>> /\ st.status = "investigating" THEN "resolved"
    ELSE st.status

\* Faulty variant: the two tests in the other order.
next_status_swapped(st) ==
    LET first == IF st.root_causes # <<>> /\ st.status = "investigating"
                 THEN "resolved" ELSE st.status
    IN  IF Truthy(st.device_ip) /\ first = "idle"
        THEN "investigating" ELSE first

\* Faulty variant: the first test does not ask for a device.
next_status_deviceless(st) ==
    LET first == IF st.status = "idle" THEN "investigating" ELSE st.status
    IN  IF st.root_causes # <<>> /\ first = "investigating"
        THEN "resolved" ELSE first

\* lines 185-188: the two status tests, one after the other
next_status(st) ==
    LET first == IF Truthy(st.device_ip) /\ st.status = "idle"
                 THEN "investigating" ELSE st.status
    IN  IF st.root_causes # <<>> /\ first = "investigating"
        THEN "resolved" ELSE first

\* extract_state_updates, lines 158-190, called on the object st.  The
\* function works on the object it is given and returns that object: object
\* is what the caller's object holds after the call, returned is the value
\* of the return statement.
extract_state_updates(response, st) ==
    LET s1 == add_logs(st, finditer("log_file", response))
        s2 == [s1 EXCEPT !.root_causes =
                 add_notes(@, finditer("root_cause", response), RootCauseMinLen)]
        s3 == [s2 EXCEPT !.hypotheses =
                 add_notes(@, finditer("hypothesis", response), NoteMinLen)]
        s4 == [s3 EXCEPT !.findings =
                 add_notes(@, finditer("finding", response), NoteMinLen)]
        s5 == [s4 EXCEPT !.status = next_status(s4)]
    IN  [object |-> s5, returned |-> s5]

(***************************************************************************)
(* The diagnostic state machine on its own: a caller holds one             *)
(* DiagnosticState object and calls extract_state_updates on it with one   *)
(* assistant response after the other.                                     *)
(***************************************************************************)
MaxExtractions == 2

sJ4 ==
    <<"S", "e", "n", "s", "o", "r", " ", "w", "i", "r", "e", " ", "d", "i",
      "s", "c", "o", "n", "n", "e", "c", "t", "e", "d", " ", "a", "t", " ",
      "J", "4">>
sLog1 ==
    <<"I", "n", "s", "t", "r", "u", "m", "e", "n", "t", "D", "e", "b", "u",
      "g", "_", "2", "0", "2", "4", "-", "0", "1", "-", "1", "5", "_", "1",
      "0", "-", "3", "0", "-", "0", "0", ".", "l", "o", "g">>
sLog2 ==
    <<"I", "n", "s", "t", "r", "u", "m", "e", "n", "t", "A", "p", "p", "_",
      "2", "_", "2", "0", "2", "4", "-", "0", "1", "-", "1", "6", "_", "0",
      "8", "-", "0", "0", "-", "0", "0", ".", "1", ".", "l", "o", "g">>
sIp ==
    <<"1", "0", ".", "0", ".", "0", ".", "5">>
sPump ==
    <<"P", "u", "m", "p", "-", "7">>
sPressure ==
    <<"P", "r", "e", "s", "s", "u", "r", "e", " ", "d", "r", "o", "p", "s",
      " ", "a", "f", "t", "e", "r", " ", "4", "0", " ", "s">>
sPumpDriver ==
    <<"P", "u", "m", "p", " ", "d", "r", "i", "v", "e", "r", " ", "r", "e",
      "s", "e", "t", "s", " ", "u", "n", "d", "e", "r", " ", "l", "o", "a",
      "d">>

\* the assistant responses
\* no pattern of the four
rNothing ==
    <<"T", "h", "e", " ", "p", "u", "m", "p", " ", "l", "o", "o", "k", "s",
      " ", "h", "e", "a", "l", "t", "h", "y", ".", " ", "R", "o", "o", "t",
      " ", "c", "a", "u", "s", "e", "s", " ", "u", "n", "k", "n", "o", "w",
      "n", ".">>
\* the response of the example
rRootJ4 ==
    <<"R", "o", "o", "t", " ", "C", "a", "u", "s", "e", ":", " ", "S", "e",
      "n", "s", "o", "r", " ", "w", "i", "r", "e", " ", "d", "i", "s", "c",
      "o", "n", "n", "e", "c", "t", "e", "d", " ", "a", "t", " ", "J", "4">>
\* a root cause of 20 characters, which is not kept
rRootShort ==
    <<"R", "o", "o", "t", " ", "c", "a", "u", "s", "e", ":", " ", "l", "o",
      "o", "s", "e", " ", "c", "a", "b", "l", "e", " ", "a", "t", " ", "p",
      "i", "n", " ", "4", ".", "\n">>
\* one root cause twice and another between them
rRootTwice ==
    <<"C", "o", "n", "f", "i", "r", "m", "e", "d", " ", ":", " ", "S", "e",
      "n", "s", "o", "r", " ", "w", "i", "r", "e", " ", "d", "i", "s", "c",
      "o", "n", "n", "e", "c", "t", "e", "d", " ", "a", "t", " ", "J", "4",
      ".", ".", "\n", "R", "e", "s", "o", "l", "v", "e", "d", ":", "\n", " ",
      " ", "P", "u", "m", "p", " ", "d", "r", "i", "v", "e", "r", " ", "r",
      "e", "s", "e", "t", "s", " ", "u", "n", "d", "e", "r", " ", "l", "o",
      "a", "d", " ", "\n", "R", "o", "o", "t", " ", "c", "a", "u", "s", "e",
      ":", " ", "S", "e", "n", "s", "o", "r", " ", "w", "i", "r", "e", " ",
      "d", "i", "s", "c", "o", "n", "n", "e", "c", "t", "e", "d", " ", "a",
      "t", " ", "J", "4">>
\* hypotheses, whatever the case of the label
rHypothesis ==
    <<"L", "I", "K", "E", "L", "Y", ":", " ", "t", "h", "e", " ", "v", "a",
      "l", "v", "e", " ", "i", "s", " ", "s", "t", "u", "c", "k", " ", "o",
      "p", "e", "n", ".", "\n", "S", "u", "s", "p", "e", "c", "t", ":", " ",
      "v", "a", "l", "v", "e", "\n", "m", "a", "y", " ", "b", "e", " ", "c",
      "a", "u", "s", "e", "d", " ", "b", "y", ":", " ", "a", " ", "w", "o",
      "r", "n", " ", "s", "e", "a", "l", " ", "i", "n", " ", "t", "h", "e",
      " ", "i", "n", "l", "e", "t">>
\* findings in bold bullets, one of them too short, one a root cause too
rFindings ==
    <<"S", "u", "m", "m", "a", "r", "y", ":", "\n", "-", " ", "*", "*", "P",
      "r", "e", "s", "s", "u", "r", "e", " ", "d", "r", "o", "p", "s", " ",
      "a", "f", "t", "e", "r", " ", "4", "0", " ", "s", "*", "*", "\n", " ",
      " ", "-", " ", "*", "*", "s", "h", "o", "r", "t", "*", "*", "\n", "-",
      "\t", "*", "*", "R", "o", "o", "t", " ", "c", "a", "u", "s", "e", ":",
      " ", "P", "u", "m", "p", " ", "d", "r", "i", "v", "e", "r", " ", "r",
      "e", "s", "e", "t", "s", " ", "u", "n", "d", "e", "r", " ", "l", "o",
      "a", "d", "*", "*", " ", "s", "e", "e", "n", "\n">>
\* two log file names, the first of them twice
rLogs ==
    <<"R", "e", "a", "d", " ", "I", "n", "s", "t", "r", "u", "m", "e", "n",
      "t", "D", "e", "b", "u", "g", "_", "2", "0", "2", "4", "-", "0", "1",
      "-", "1", "5", "_", "1", "0", "-", "3", "0", "-", "0", "0", ".", "l",
      "o", "g", ",", " ", "t", "h", "e", "n", " ", "I", "n", "s", "t", "r",
      "u", "m", "e", "n", "t", "A", "p", "p", "_", "2", "_", "2", "0", "2",
      "4", "-", "0", "1", "-", "1", "6", "_", "0", "8", "-", "0", "0", "-",
      "0", "0", ".", "1", ".", "l", "o", "g", " ", "a", "n", "d", " ", "I",
      "n", "s", "t", "r", "u", "m", "e", "n", "t", "D", "e", "b", "u", "g",
      "_", "2", "0", "2", "4", "-", "0", "1", "-", "1", "5", "_", "1", "0",
      "-", "3", "0", "-", "0", "0", ".", "l", "o", "g", " ", "a", "g", "a",
      "i", "n", ";", " ", "I", "n", "s", "t", "r", "u", "m", "e", "n", "t",
      "_", "2", "0", "2", "4", "-", "0", "1", "-", "1", "5", "_", "1", ".",
      "l", "o", "g", " ", "i", "s", " ", "n", "o", " ", "n", "a", "m", "e",
      ".">>
\* a log file name alone
rLogAgain ==
    <<"L", "o", "o", "k", "e", "d", " ", "a", "t", " ", "I", "n", "s", "t",
      "r", "u", "m", "e", "n", "t", "D", "e", "b", "u", "g", "_", "2", "0",
      "2", "4", "-", "0", "1", "-", "1", "5", "_", "1", "0", "-", "3", "0",
      "-", "0", "0", ".", "l", "o", "g", " ", "o", "n", "c", "e", " ", "m",
      "o", "r", "e", ".">>
\* a root cause of 199 characters
rRoot199 ==
    <<"R", "o", "o", "t", " ", "c", "a", "u", "s", "e", ":", " ">> \o Rep("x", 199)
\* a root cause of 200 characters, which is not kept
rRoot200 ==
    <<"R", "o", "o", "t", " ", "c", "a", "u", "s", "e", ":", " ">> \o Rep("y", 200)
\* the responses of one conversation, by the family it belongs to
DiagVocabularies == {"root", "notes", "logs", "bounds"}
Responses(v) ==
    CASE v = "root"   -> {rNothing, rRootJ4, rRootShort, rRootTwice}
      [] v = "notes"  -> {rHypothesis, rFindings, rRootJ4}
      [] v = "logs"   -> {rLogs, rLogAgain, rNothing}
      [] v = "bounds" -> {rRoot199, rRoot200}

\* the objects a caller may hold before the first call: lists without
\* duplicates, any of the three statuses, a device that is known or not
DiagStates ==
    { DefaultState,
      [DefaultState EXCEPT !.device_ip = Some(<<>>)],
      [DefaultState EXCEPT !.device_ip = Some(sIp), !.device_name = Some(sPump)],
      [DefaultState EXCEPT !.device_ip = Some(sIp), !.device_name = Some(sPump),
                           !.status = "investigating",
                           !.last_log_file = Some(sLog1),
                           !.downloaded_logs = <<sLog1>>,
                           !.findings = <<sPressure>>],
      [DefaultState EXCEPT !.device_ip = Some(sIp), !.device_name = Some(sPump),
                           !.status = "resolved",
                           !.root_causes = <<sPumpDriver, sJ4>>] }

\* state = extract_state_updates(response, state)
Extract ==
    /\ Len(extractions) < MaxExtractions
    /\ \E response \in Responses(vocab) :
         \E x \in {extract_state_updates(response, state)} :
             /\ state' = x.object
             /\ extractions' = Append(extractions,
                    [response |-> response, before |-> state,
                     object |-> x.object, returned |-> x.returned])
    /\ UNCHANGED <<vocab, pc, session_id, accumulated, events, proc, reads,
                   steps, truth, scripted, finalSent, killCalls, cp, appvars,
                   messages, summary, built>>

InitDiag ==
    /\ vocab \in DiagVocabularies
    /\ pc = "memory"
    /\ session_id = <<>>
    /\ accumulated = <<>>
    /\ events = <<>>
    /\ proc = <<>>
    /\ reads = <<>>
    /\ steps = <<>>
    /\ truth = <<>>
    /\ scripted = TRUE
    /\ finalSent = FALSE
    /\ killCalls = <<>>
    /\ cp = NoCall
    /\ NoApp
    /\ state \in DiagStates
    /\ extractions = <<>>
    /\ messages = <<>>
    /\ summary = <<>>
    /\ built = <<>>

NextDiag == Extract

SpecDiag == InitDiag /\ [][NextDiag]_vars

(***************************************************************************)
(* Properties of the diagnostic state machine.                             *)
(***************************************************************************)
\* the order idle < investigating < resolved
Rank(status) ==
    CASE status = "idle" -> 0
      [] status = "investigating" -> 1
      [] status = "resolved" -> 2

ListFields == {"downloaded_logs", "findings", "hypotheses", "root_causes"}

NoDuplicates(list) ==
    \A i, j \in DOMAIN list : list[i] = list[j] => i = j

IsPrefixOf(a, b) == Len(a) <= Len(b) /\ SubSeq(b, 1, Len(a)) = a

\* C12: the status never moves backward under extract_state_updates: in
\* every call of every sequence of calls the status returned is not below
\* the status before the call in the order idle < investigating < resolved;
\* a resolved state stays resolved, an investigating state never becomes
\* idle.
C12_StatusNeverBackward ==
    \A n \in DOMAIN extractions :
        LET x == extractions[n]
        IN  /\ Rank(x.returned.status) >= Rank(x.before.status)
            /\ x.before.status = "resolved" => x.returned.status = "resolved"
            /\ x.before.status = "investigating" => x.returned.status # "idle"
            /\ n > 1 => x.before = extractions[n - 1].returned

C12_Witness ==
    /\ Len(extractions) = 2
    /\ extractions[1].before.status = "investigating"
    /\ extractions[1].returned.status = "resolved"
    /\ extractions[2].response = rNothing
    /\ state.status = "resolved"

\* C13: from lists without duplicates, after any number of calls (also
\* calls over the same response again) none of downloaded_logs, findings,
\* hypotheses and root_causes holds an entry twice, and every call leaves
\* the entries a list held in their places at its front, in their order.
C13_NoDuplicatesOrderKept ==
    /\ \A f \in ListFields : NoDuplicates(state[f])
    /\ \A n \in DOMAIN extractions :
         \A f \in ListFields :
            /\ NoDuplicates(extractions[n].returned[f])
            /\ IsPrefixOf(extractions[n].before[f], extractions[n].returned[f])

C13_Witness ==
    /\ Len(extractions) = 2
    /\ extractions[1].response = rRootTwice
    /\ extractions[2].response = rRootTwice
    /\ extractions[1].before.root_causes = <<>>
    /\ state.root_causes = <<sJ4, sPumpDriver>>

\* the device of the state is known
DeviceKnown(st) == Truthy(st.device_ip)

\* C14: after extract_state_updates returns, an idle state with a known
\* device is at least investigating; a state that was, or has just become,
\* investigating and has a root cause is resolved; an idle state with no
\* device stays idle.  The response "Root Cause: Sensor wire disconnected at
\* J4" on an investigating state with a known device and no root cause gives
\* root_causes = ["Sensor wire disconnected at J4"] and status resolved.
C14_StatusTransitions ==
    \A n \in DOMAIN extractions :
        LET x == extractions[n]
            b == x.before
            r == x.returned
        IN  /\ (b.status = "idle" /\ DeviceKnown(b)) => Rank(r.status) >= 1
            /\ ( /\ b.status = "investigating" \/ (b.status = "idle" /\ DeviceKnown(b))
                 /\ r.root_causes # <<>> )
               => r.status = "resolved"
            /\ (b.status = "idle" /\ ~DeviceKnown(b)) => r.status = "idle"
            /\ ( /\ x.response = rRootJ4
                 /\ b.status = "investigating"
                 /\ DeviceKnown(b)
                 /\ b.root_causes = <<>> )
               => (r.root_causes = <<sJ4>> /\ r.status = "resolved")

C14_Witness ==
    /\ Len(extractions) = 1
    /\ extractions[1].response = rRootJ4
    /\ extractions[1].before.status = "investigating"
    /\ DeviceKnown(extractions[1].before)
    /\ state.root_causes = <<sJ4>>
    /\ state.status = "resolved"

\* the other cases of C14: idle to resolved in one call; idle with no device
C14_WitnessIdle ==
    /\ Len(extractions) = 1
    /\ extractions[1].before.status = "idle"
    /\ DeviceKnown(extractions[1].before)
    /\ state.status = "resolved"

C14_WitnessNoDevice ==
    /\ Len(extractions) = 1
    /\ extractions[1].before.status = "idle"
    /\ extractions[1].before.device_ip = Some(<<>>)
    /\ state.root_causes # <<>>
    /\ state.status = "idle"

\* C15: extract_state_updates is a pure function of the response and the
\* prior state: the object passed in holds after the call what it held
\* before it.
C15_PriorStateUnchanged ==
    \A n \in DOMAIN extractions :
        extractions[n].object = extractions[n].before

(***************************************************************************)
(* Conversation memory (src/memory.py): content filters, message           *)
(* compression, rolling summary, prompt assembly.                          *)
(***************************************************************************)
RECENT_TURN_COUNT == 3
MAX_SUMMARY_CHARS == 5000
MAX_RECENT_MSG_CHARS == 3000
CompressMaxChars == 400
LongCodeMinChars == 2000
LogBlockMinLines == 5

\* characters that have no place in a string of this module
Ellipsis == "U+2026"
EmDash == "U+2014"

\* the positions of s, from i on, where the literal lit stands
Occurrences(s, i, lit) == {j \in i..Len(s) : MatchAt(s, j, lit)}

\* the least element of a non-empty set of positions
Least(positions) == CHOOSE p \in positions : \A x \in positions : p <= x

sPlotlyMarker ==
    <<"<", "!", "-", "-", " ", "P", "L", "O", "T", "L", "Y", "_", "C", "H",
      "A", "R", "T", ":">>
sImagesMarker ==
    <<"<", "!", "-", "-", " ", "A", "T", "T", "A", "C", "H", "E", "D", "_",
      "I", "M", "A", "G", "E", "S", ":">>
sMarkerEnd ==
    <<"-", "-", ">">>

\* _MARKER_RE.sub("", s), lines 21 and 35: every marker, up to the first
\* "-->" after its head, is removed
RECURSIVE sub_markers(_)
sub_markers(s) ==
    LET heads  == {j \in 1..Len(s) :
                     \/ /\ MatchAt(s, j, sPlotlyMarker)
                        /\ Occurrences(s, j + Len(sPlotlyMarker), sMarkerEnd) # {}
                     \/ /\ MatchAt(s, j, sImagesMarker)
                        /\ Occurrences(s, j + Len(sImagesMarker), sMarkerEnd) # {}}
    IN  IF heads = {} THEN s
        ELSE LET i == Least(heads)
                 h == IF MatchAt(s, i, sPlotlyMarker)
                      THEN i + Len(sPlotlyMarker) ELSE i + Len(sImagesMarker)
                 c == Least(Occurrences(s, h, sMarkerEnd))
             IN  SubSeq(s, 1, i - 1) \o sub_markers(SubSeq(s, c + 3, Len(s)))

\* \[?\d{4}-\d{2}-\d{2}[ T]\d{2}:\d{2}:\d{2} at position i (line 23)
TimestampAt(s, i) ==
    LET d == IF i <= Len(s) /\ s[i] = "[" THEN i + 1 ELSE i
    IN  /\ d + 18 <= Len(s)
        /\ \A k \in {0, 1, 2, 3, 5, 6, 8, 9, 11, 12, 14, 15, 17, 18} :
               s[d + k] \in DigitSet
        /\ s[d + 4] = "-" /\ s[d + 7] = "-"
        /\ s[d + 10] \in {" ", "T"}
        /\ s[d + 13] = ":" /\ s[d + 16] = ":"

\* the end of the run of timestamped lines that follow the "\n" at e, each
\* ended by its "\n": the repetitions after the fifth
RECURSIVE log_run_end(_, _)
log_run_end(s, e) ==
    IF TimestampAt(s, e + 1) /\ LineEnd(s, e + 1) <= Len(s)
    THEN log_run_end(s, LineEnd(s, e + 1))
    ELSE e
sLogOmitted ==
    <<"\n", "[", "r", "a", "w", " ", "l", "o", "g", " ", "o", "m", "i", "t",
      "t", "e", "d", " ">>
sLogOmittedTail ==
    <<" ", "s", "e", "e", " ", "d", "i", "a", "g", "n", "o", "s", "t", "i",
      "c", "_", "c", "o", "n", "t", "e", "x", "t", "]", "\n">>
sFence ==
    <<BackQuote, BackQuote, BackQuote>>
sCodeOmittedBody ==
    <<"\n", "[", "l", "a", "r", "g", "e", " ", "c", "o", "d", "e", " ", "b",
      "l", "o", "c", "k", " ", "o", "m", "i", "t", "t", "e", "d", "]", "\n">>

\* _LOG_LINE_BLOCK_RE.sub(placeholder, s), lines 22-25 and 36.  A block
\* starts at the start of the text (at_start) or at a "\n", which it takes
\* in, and is made of timestamped lines: the first five repetitions each
\* run lazily up to the "\n" before the next line that starts with a
\* timestamp (the dot matches "\n"), the fifth and the following ones up
\* to the end of their line.
RECURSIVE sub_log_blocks(_, _)
sub_log_blocks(s, at_start) ==
    LET stamped == {q \in 1..Len(s) :
                      /\ IF q = 1 THEN at_start ELSE s[q - 1] = "\n"
                      /\ TimestampAt(s, q)}
        ended   == {q \in stamped : LineEnd(s, q) <= Len(s)}
    IN  IF Cardinality(ended) < LogBlockMinLines THEN s
        ELSE LET b  == Least(stamped)
                 q5 == CHOOSE q \in ended :
                         Cardinality({x \in ended : x <= q}) = LogBlockMinLines
                 e  == log_run_end(s, LineEnd(s, q5))
                 from == IF b = 1 THEN 1 ELSE b - 1
             IN  SubSeq(s, 1, from - 1) \o sLogOmitted \o <<EmDash>>
                 \o sLogOmittedTail
                 \o sub_log_blocks(SubSeq(s, e + 1, Len(s)), FALSE)

\* _LONG_CODE_RE.sub(placeholder, s), lines 26 and 37: a fence, the rest of
\* its line, then at least 2000 characters up to the first fence after them
RECURSIVE sub_long_code(_)
sub_long_code(s) ==
    LET opens == {j \in Occurrences(s, 1, sFence) :
                    /\ LineEnd(s, j + 3) <= Len(s)
                    /\ Occurrences(s, LineEnd(s, j + 3) + 1 + LongCodeMinChars,
                                   sFence) # {}}
    IN  IF opens = {} THEN s
        ELSE LET i == Least(opens)
                 c == Least(Occurrences(s, LineEnd(s, i + 3) + 1 + LongCodeMinChars,
                                        sFence))
             IN  SubSeq(s, 1, i - 1) \o sFence \o sCodeOmittedBody \o sFence
                 \o sub_long_code(SubSeq(s, c + 3, Len(s)))

\* filter_content, lines 33-38
filter_content(content) ==
    Strip(sub_long_code(sub_log_blocks(sub_markers(content), TRUE)))

\* sep.join(parts)
RECURSIVE Join(_, _)
Join(parts, sep) ==
    IF parts = <<>> THEN <<>>
    ELSE IF Len(parts) = 1 THEN parts[1]
    ELSE parts[1] \o sep \o Join(Tail(parts), sep)

\* s.split(sep)
RECURSIVE Split(_, _)
Split(s, sep) ==
    LET at == Occurrences(s, 1, sep)
    IN  IF at = {} THEN <<s>>
        ELSE LET i == Least(at)
             IN  <<SubSeq(s, 1, i - 1)>>
                 \o Split(SubSeq(s, i + Len(sep), Len(s)), sep)

\* s[-n:] for n > 0
LastChars(s, n) == IF n >= Len(s) THEN s ELSE SubSeq(s, Len(s) - n + 1, Len(s))

\* s[:n]
FirstChars(s, n) == IF n >= Len(s) THEN s ELSE SubSeq(s, 1, n)

sUser ==
    <<"U", "s", "e", "r">>
sAssistant ==
    <<"A", "s", "s", "i", "s", "t", "a", "n", "t">>
sParagraphGap ==
    <<"\n", ".", ".", ".", "\n">>

\* lines 72 and 248: "User" if msg["role"] == "user" else "Assistant"
role_label(msg) == IF msg.role = "user" THEN sUser ELSE sAssistant

\* line 48: [p.strip() for p in filtered.split("\n\n") if p.strip()]
paragraphs_of(filtered) ==
    LET parts == Split(filtered, <<"\n", "\n">>)
        stripped == [k \in DOMAIN parts |-> Strip(parts[k])]
    IN  SelectSeq(stripped, LAMBDA p : p # <<>>)

\* compress_message, lines 41-55, with max_chars at its default
compress_message(role, content) ==
    LET filtered == filter_content(content)
        cut == role \o <<":", " ">> \o FirstChars(filtered, CompressMaxChars)
               \o <<Ellipsis>>
    IN  IF Len(filtered) <= CompressMaxChars
        THEN role \o <<":", " ">> \o filtered
        ELSE IF role = sAssistant
        THEN LET paragraphs == paragraphs_of(filtered)
                 compressed == paragraphs[1] \o sParagraphGap
                               \o paragraphs[Len(paragraphs)]
             IN  IF Len(paragraphs) >= 2 /\ Len(compressed) <= CompressMaxChars
                 THEN role \o <<":", " ">> \o compressed
                 ELSE cut
        ELSE cut

\* Faulty variant: the cap keeps MAX_SUMMARY_CHARS characters after the mark.
cap_summary_one_more(combined) ==
    IF Len(combined) > MAX_SUMMARY_CHARS
    THEN <<Ellipsis>> \o LastChars(combined, MAX_SUMMARY_CHARS)
    ELSE combined

\* build_summary, lines 81-84: the cap
cap_summary(combined) ==
    IF Len(combined) > MAX_SUMMARY_CHARS
    THEN <<Ellipsis>> \o LastChars(combined, MAX_SUMMARY_CHARS - 1)
    ELSE combined

\* build_summary, lines 70-79: the text before the cap
combined_summary(existing_summary, turns_to_compress) ==
    LET new_parts == [k \in DOMAIN turns_to_compress |->
                        compress_message(role_label(turns_to_compress[k]),
                                         turns_to_compress[k].content)]
        new_block == Join(new_parts, <<"\n">>)
    IN  IF existing_summary # <<>>
        THEN existing_summary \o <<"\n">> \o new_block
        ELSE new_block

\* build_summary, lines 60-84
build_summary(existing_summary, turns_to_compress) ==
    cap_summary(combined_summary(existing_summary, turns_to_compress))

sNone ==
    <<"N", "o", "n", "e">>
sDevice ==
    <<"D", "e", "v", "i", "c", "e", ":", " ">>
sLastLog ==
    <<"L", "a", "s", "t", " ", "l", "o", "g", ":", " ">>
sDownloaded ==
    <<"D", "o", "w", "n", "l", "o", "a", "d", "e", "d", ":", " ">>
sKeyFindings ==
    <<"K", "e", "y", " ", "f", "i", "n", "d", "i", "n", "g", "s", ":">>
sActiveHypotheses ==
    <<"A", "c", "t", "i", "v", "e", " ", "h", "y", "p", "o", "t", "h", "e",
      "s", "e", "s", ":">>
sConfirmedRootCauses ==
    <<"C", "o", "n", "f", "i", "r", "m", "e", "d", " ", "r", "o", "o", "t",
      " ", "c", "a", "u", "s", "e", "s", ":">>

\* str() of an Optional[str] in an f-string
StrOf(o) == IF o = <<>> THEN sNone ELSE Get(o)

\* list[-n:]
LastItems(list, n) ==
    IF n >= Len(list) THEN list ELSE SubSeq(list, Len(list) - n + 1, Len(list))

\* lines 128-129, 132-133, 136-137: one "  - entry" line for each entry
Bullets(list) == [k \in DOMAIN list |-> <<" ", " ", "-", " ">> \o list[k]]

\* DiagnosticState.to_prompt_block, lines 118-138
to_prompt_block(st) ==
    IF st.status = "idle" THEN <<>>
    ELSE Join(
        << sDevice \o StrOf(st.device_name) \o <<" ", "(">> \o StrOf(st.device_ip)
           \o <<")">> >>
        \o (IF Truthy(st.last_log_file)
            THEN <<sLastLog \o Get(st.last_log_file)>> ELSE <<>>)
        \o (IF st.downloaded_logs # <<>>
            THEN <<sDownloaded \o Join(LastItems(st.downloaded_logs, 3), <<",", " ">>)>>
            ELSE <<>>)
        \o (IF st.findings # <<>>
            THEN <<sKeyFindings>> \o Bullets(LastItems(st.findings, 5)) ELSE <<>>)
        \o (IF st.hypotheses # <<>>
            THEN <<sActiveHypotheses>> \o Bullets(LastItems(st.hypotheses, 3))
            ELSE <<>>)
        \o (IF st.root_causes # <<>>
            THEN <<sConfirmedRootCauses>> \o Bullets(st.root_causes) ELSE <<>>),
        <<"\n">>)

sDiagOpen ==
    <<"<", "d", "i", "a", "g", "n", "o", "s", "t", "i", "c", "_", "c", "o",
      "n", "t", "e", "x", "t", ">", "\n">>
sDiagClose ==
    <<"\n", "<", "/", "d", "i", "a", "g", "n", "o", "s", "t", "i", "c", "_",
      "c", "o", "n", "t", "e", "x", "t", ">">>
sSummaryOpen ==
    <<"<", "c", "o", "n", "v", "e", "r", "s", "a", "t", "i", "o", "n", "_",
      "s", "u", "m", "m", "a", "r", "y", ">", "\n">>
sSummaryClose ==
    <<"\n", "<", "/", "c", "o", "n", "v", "e", "r", "s", "a", "t", "i", "o",
      "n", "_", "s", "u", "m", "m", "a", "r", "y", ">">>
sRecentOpen ==
    <<"<", "r", "e", "c", "e", "n", "t", "_", "c", "o", "n", "v", "e", "r",
      "s", "a", "t", "i", "o", "n", ">", "\n">>
sRecentClose ==
    <<"\n", "<", "/", "r", "e", "c", "e", "n", "t", "_", "c", "o", "n", "v",
      "e", "r", "s", "a", "t", "i", "o", "n", ">">>
sNoteOpen ==
    <<"<", "n", "o", "t", "e", ">">>
\* lines 228-230
sDeviceNote ==
    <<"<", "n", "o", "t", "e", ">", "U", "s", "e", " ", "d", "i", "a", "g",
      "n", "o", "s", "t", "i", "c", "_", "c", "o", "n", "t", "e", "x", "t",
      " ", "a", "n", "d", " ", "c", "o", "n", "v", "e", "r", "s", "a", "t",
      "i", "o", "n", "_", "s", "u", "m", "m", "a", "r", "y", " ", "t", "o",
      " ", "a", "v", "o", "i", "d", " ", "r", "e", "-", "d", "o", "w", "n",
      "l", "o", "a", "d", "i", "n", "g", " ", "l", "o", "g", "s", " ", "a",
      "l", "r", "e", "a", "d", "y", " ", "a", "n", "a", "l", "y", "z", "e",
      "d", ".", " ", "R", "e", "u", "s", "e", " ", "e", "x", "i", "s", "t",
      "i", "n", "g", " ", "f", "i", "n", "d", "i", "n", "g", "s", ".", " ",
      "I", "f", " ", "t", "h", "e", " ", "u", "s", "e", "r", " ", "a", "s",
      "k", "s", " ", "f", "o", "r", " ", "f", "r", "e", "s", "h", " ", "l",
      "o", "g", "s", ",", " ", "r", "e", "-", "d", "o", "w", "n", "l", "o",
      "a", "d", ".", "<", "/", "n", "o", "t", "e", ">">>
\* lines 234-235
sDirectNote ==
    <<"<", "n", "o", "t", "e", ">", "C", "u", "r", "r", "e", "n", "t", " ",
      "q", "u", "e", "s", "t", "i", "o", "n", " ", "i", "s", " ", "N", "O",
      "T", " ", "a", "b", "o", "u", "t", " ", "d", "e", "v", "i", "c", "e",
      " ", "d", "e", "b", "u", "g", "g", "i", "n", "g", ".", " ", "D", "o",
      " ", "n", "o", "t", " ", "d", "o", "w", "n", "l", "o", "a", "d", " ",
      "l", "o", "g", "s", " ", "o", "r", " ", "a", "n", "a", "l", "y", "z",
      "e", " ", "d", "e", "v", "i", "c", "e", "s", ".", " ", "A", "n", "s",
      "w", "e", "r", " ", "d", "i", "r", "e", "c", "t", "l", "y", ".", "<",
      "/", "n", "o", "t", "e", ">">>
sCutMark ==
    <<"\n", "[", ".", ".", ".", "]", "\n">>

\* Faulty variant: the recent zone holds RECENT_TURN_COUNT messages.
recent_count_halved == RECENT_TURN_COUNT

\* line 208
recent_count == RECENT_TURN_COUNT * 2

\* lines 209-214: older and recent
partition(all_messages) ==
    IF Len(all_messages) > recent_count
    THEN [older  |-> SubSeq(all_messages, 1, Len(all_messages) - recent_count),
          recent |-> SubSeq(all_messages, Len(all_messages) - recent_count + 1,
                            Len(all_messages))]
    ELSE [older |-> <<>>, recent |-> all_messages]

\* Faulty variant: the summary is built anew whatever the number of messages.
summary_for_rebuilt(all_messages, existing_summary) ==
    build_summary(<<>>, partition(all_messages).older)

\* lines 209-215: updated_summary
summary_for(all_messages, existing_summary) ==
    IF Len(all_messages) > recent_count
    THEN build_summary(<<>>, partition(all_messages).older)
    ELSE existing_summary

\* lines 226-236: the behaviour note, as a list of no or one block
note_blocks(all_messages, is_device_query) ==
    IF is_device_query THEN <<sDeviceNote>>
    ELSE IF \E k \in DOMAIN all_messages : all_messages[k].role = "assistant"
    THEN <<sDirectNote>>
    ELSE <<>>

\* Faulty variant: the content is never cut.
recent_line_uncut(msg) ==
    role_label(msg) \o <<":", " ">> \o filter_content(msg.content)

\* lines 247-253: one line of the recent block
recent_line(msg) ==
    LET content == filter_content(msg.content)
        half == MAX_RECENT_MSG_CHARS \div 2
    IN  role_label(msg) \o <<":", " ">>
        \o (IF Len(content) > MAX_RECENT_MSG_CHARS
            THEN FirstChars(content, half) \o sCutMark \o LastChars(content, half)
            ELSE content)

\* lines 245-257: the recent block, as a list of no or one block
recent_blocks(recent) ==
    IF recent = <<>> THEN <<>>
    ELSE << sRecentOpen
            \o Join([k \in DOMAIN recent |-> recent_line(recent[k])], <<"\n", "\n">>)
            \o sRecentClose >>

\* Faulty variant: the summary block is put before the behaviour note.
blocks_of_summary_first(current_question, state_block, notes, updated_summary, recents) ==
    <<current_question>>
    \o (IF state_block # <<>>
        THEN <<sDiagOpen \o state_block \o sDiagClose>> ELSE <<>>)
    \o (IF updated_summary # <<>>
        THEN <<sSummaryOpen \o updated_summary \o sSummaryClose>> ELSE <<>>)
    \o notes
    \o recents

\* lines 218-257: the list blocks
blocks_of(current_question, state_block, notes, updated_summary, recents) ==
    <<current_question>>
    \o (IF state_block # <<>>
        THEN <<sDiagOpen \o state_block \o sDiagClose>> ELSE <<>>)
    \o notes
    \o (IF updated_summary # <<>>
        THEN <<sSummaryOpen \o updated_summary \o sSummaryClose>> ELSE <<>>)
    \o recents

\* build_prompt, lines 195-259.  prompt and updated_summary are the pair
\* returned; older, recent and blocks are the locals of these names.
build_prompt(current_question, all_messages, diagnostic_state, existing_summary, is_device_query) ==
    LET parts == partition(all_messages)
        updated_summary == summary_for(all_messages, existing_summary)
        blocks == blocks_of(current_question,
                            to_prompt_block(diagnostic_state),
                            note_blocks(all_messages, is_device_query),
                            updated_summary,
                            recent_blocks(parts.recent))
    IN  [prompt |-> Join(blocks, <<"\n", "\n">>),
         updated_summary |-> updated_summary,
         older |-> parts.older, recent |-> parts.recent, blocks |-> blocks]

(***************************************************************************)
(* The memory layers on their own.  In a conversation the caller builds    *)
(* the prompt of the next question from the messages so far and the        *)
(* summary it stores, stores the summary returned, then adds the question  *)
(* and the answer to the messages.  In the family "rolling" the caller     *)
(* compresses turns into the stored summary with build_summary itself.     *)
(***************************************************************************)
MaxExchanges == 10
MaxCompressions == 2

MemVocabularies ==
    {"brief", "lengthy", "marked", "rolling", "diagnosing", "capped"}

sQuestion ==
    <<"w", "h", "y", " ", "d", "o", "e", "s", " ", "t", "h", "e", " ", "p",
      "u", "m", "p", " ", "s", "t", "a", "l", "l", "?", " ", "#">>
sAnswer ==
    <<"t", "h", "e", " ", "i", "n", "l", "e", "t", " ", "v", "a", "l", "v",
      "e", " ", "s", "t", "i", "c", "k", "s", ".", " ", "#">>
sChartMarker ==
    <<"<", "!", "-", "-", " ", "P", "L", "O", "T", "L", "Y", "_", "C", "H",
      "A", "R", "T", ":", "f", "i", "g", ".", "j", "s", "o", "n", "-", "-",
      ">">>
\* five timestamped lines
sLogDump ==
    <<"2", "0", "2", "4", "-", "0", "1", "-", "1", "5", " ", "1", "0", ":",
      "3", "0", ":", "0", "0", " ", "p", "u", "m", "p", " ", "s", "p", "e",
      "e", "d", " ", "0", "\n", "2", "0", "2", "4", "-", "0", "1", "-", "1",
      "5", " ", "1", "0", ":", "3", "0", ":", "0", "1", " ", "p", "u", "m",
      "p", " ", "s", "p", "e", "e", "d", " ", "1", "\n", "2", "0", "2", "4",
      "-", "0", "1", "-", "1", "5", " ", "1", "0", ":", "3", "0", ":", "0",
      "2", " ", "p", "u", "m", "p", " ", "s", "p", "e", "e", "d", " ", "2",
      "\n", "2", "0", "2", "4", "-", "0", "1", "-", "1", "5", " ", "1", "0",
      ":", "3", "0", ":", "0", "3", " ", "p", "u", "m", "p", " ", "s", "p",
      "e", "e", "d", " ", "3", "\n", "2", "0", "2", "4", "-", "0", "1", "-",
      "1", "5", " ", "1", "0", ":", "3", "0", ":", "0", "4", " ", "p", "u",
      "m", "p", " ", "s", "p", "e", "e", "d", " ", "4", "\n">>
sStep ==
    <<"S", "t", "e", "p", " ", "o", "n", "e", " ", "o", "f", " ", "t", "h",
      "e", " ", "a", "n", "a", "l", "y", "s", "i", "s", ".", "\n", "\n">>
sDoneStep ==
    <<"\n", "\n", "D", "o", "n", "e", ".">>
\* a summary stored before
sEarlier ==
    <<"E", "a", "r", "l", "i", "e", "r", ":", " ", "p", "u", "m", "p", " ",
      "P", "-", "7", " ", "s", "t", "a", "l", "l", "s", " ", "a", "t", " ",
      "s", "t", "a", "r", "t">>

\* an answer that names a new root cause at every exchange
sRootCauseIs ==
    <<"R", "o", "o", "t", " ", "c", "a", "u", "s", "e", ":", " ", "v", "a",
      "l", "v", "e", " ", "s", "t", "i", "c", "k", "s", " ", "a", "f", "t",
      "e", "r", " ", "w", "a", "r", "m", " ", "r", "e", "s", "t", "a", "r",
      "t", " ", "#">>

\* the question and the answer of exchange k, by family
\* answers around the cap of a recent message: one character over it, at
\* it, and over it only before the chart marker is filtered out
CappedText(k) ==
    LET half == MAX_RECENT_MSG_CHARS \div 2
    IN  CASE k % 3 = 1 -> Rep("h", half) \o <<"M">> \o Rep("t", half)
          [] k % 3 = 2 -> Rep("h", half) \o Rep("t", half)
          [] k % 3 = 0 -> Rep("h", half) \o sChartMarker \o Rep("t", half)

UserText(v, k) ==
    CASE v = "brief"   -> sQuestion \o StrNat(k)
      [] v = "lengthy" -> Rep("u", 450) \o StrNat(k)
      [] v = "marked"  -> sQuestion \o sChartMarker \o StrNat(k)
      [] v = "rolling" -> sQuestion
      [] v = "diagnosing" -> sQuestion \o StrNat(k)
      [] v = "capped"  -> sQuestion \o StrNat(k)
AssistantText(v, k) ==
    CASE v = "brief"   -> sAnswer \o StrNat(k)
      [] v = "lengthy" -> IF k = 1 THEN sStep \o Rep("d", 600) \o sDoneStep
                          ELSE Rep("a", 450) \o StrNat(k)
      [] v = "marked"  -> sLogDump \o sAnswer \o StrNat(k)
      [] v = "rolling" -> sAnswer
      [] v = "diagnosing" -> sRootCauseIs \o StrNat(k) \o <<"\n">>
      [] v = "capped"  -> CappedText(k)

UserMessage(content) == [role |-> "user", content |-> content]
AssistantMessage(content) == [role |-> "assistant", content |-> content]

\* a summary that fills the cap: the result of an earlier cut
sFullSummary == <<Ellipsis>> \o Rep("s", MAX_SUMMARY_CHARS - 1)

\* the summary a conversation may have stored before
InitialSummaries(v) ==
    IF v = "rolling" THEN {<<>>, sEarlier, sFullSummary} ELSE {<<>>, sEarlier}

\* the turns one build_summary call is given
TurnsToCompress ==
    { <<>>,
      <<UserMessage(sQuestion)>>,
      <<UserMessage(Rep("u", 450)), AssistantMessage(Rep("a", 450))>> }

InvestigatingState ==
    [DefaultState EXCEPT !.device_ip = Some(sIp), !.device_name = Some(sPump),
                         !.status = "investigating",
                         !.last_log_file = Some(sLog1),
                         !.downloaded_logs = <<sLog1>>,
                         !.findings = <<sPressure>>]

\* the diagnostic state a prompt is built with: in the family "diagnosing"
\* the state of the conversation, which every answer is extracted into
PromptStates == {DefaultState, InvestigatingState}
PromptStatesFor(v, st) == IF v = "diagnosing" THEN {st} ELSE PromptStates

\* prompt, summary = build_prompt(question, messages, state, summary, ...),
\* for the next question of the conversation
BuildPrompt ==
    /\ vocab # "rolling"
    /\ built = <<>>
    /\ Len(messages) < 2 * MaxExchanges + 1
    /\ \E is_device_query \in BOOLEAN,
          diagnostic_state \in PromptStatesFor(vocab, state) :
         LET question == UserText(vocab, Len(messages) \div 2 + 1)
         IN  \E r \in {build_prompt(question, messages, diagnostic_state,
                                    summary, is_device_query)} :
                 /\ built' = Some([fn |-> "build_prompt",
                                   current_question |-> question,
                                   all_messages |-> messages,
                                   diagnostic_state |-> diagnostic_state,
                                   existing_summary |-> summary,
                                   is_device_query |-> is_device_query,
                                   result |-> r])
                 /\ summary' = r.updated_summary
    /\ UNCHANGED <<vocab, pc, session_id, accumulated, events, proc, reads,
                   steps, truth, scripted, finalSent, killCalls, cp, appvars,
                   state, extractions, messages>>

\* the question and its answer are added to the conversation; in the family
\* "diagnosing" the answer is extracted into the diagnostic state
Exchange ==
    /\ vocab # "rolling"
    /\ built # <<>>
    /\ Len(messages) < 2 * MaxExchanges
    /\ LET k == Len(messages) \div 2 + 1
       IN  /\ messages' = messages \o <<UserMessage(UserText(vocab, k)),
                                     AssistantMessage(AssistantText(vocab, k))>>
           /\ state' = IF vocab = "diagnosing"
                       THEN extract_state_updates(AssistantText(vocab, k),
                                                  state).object
                       ELSE state
    /\ built' = <<>>
    /\ UNCHANGED <<vocab, pc, session_id, accumulated, events, proc, reads,
                   steps, truth, scripted, finalSent, killCalls, cp, appvars,
                   extractions, summary>>

\* summary = build_summary(summary, turns)
Compress ==
    /\ vocab = "rolling"
    /\ (IF built = <<>> THEN 0 ELSE Get(built).count) < MaxCompressions
    /\ \E turns \in TurnsToCompress :
         \E r \in {build_summary(summary, turns)} :
             /\ built' = Some([fn |-> "build_summary",
                               existing_summary |-> summary,
                               turns_to_compress |-> turns,
                               result |-> r,
                               count |-> IF built = <<>> THEN 1
                                         ELSE Get(built).count + 1])
             /\ summary' = r
    /\ UNCHANGED <<vocab, pc, session_id, accumulated, events, proc, reads,
                   steps, truth, scripted, finalSent, killCalls, cp, appvars,
                   state, extractions, messages>>

InitMem ==
    /\ vocab \in MemVocabularies
    /\ pc = "memory"
    /\ session_id = <<>>
    /\ accumulated = <<>>
    /\ events = <<>>
    /\ proc = <<>>
    /\ reads = <<>>
    /\ steps = <<>>
    /\ truth = <<>>
    /\ scripted = TRUE
    /\ finalSent = FALSE
    /\ killCalls = <<>>
    /\ cp = NoCall
    /\ NoApp
    /\ state = IF vocab = "diagnosing" THEN InvestigatingState ELSE <<>>
    /\ extractions = <<>>
    /\ messages = <<>>
    /\ summary \in InitialSummaries(vocab)
    /\ built = <<>>

NextMem ==
    \/ BuildPrompt
    \/ Exchange
    \/ Compress

SpecMem == InitMem /\ [][NextMem]_vars

\* the last call, when it was one of build_summary / of build_prompt
Summarised == built # <<>> /\ Get(built).fn = "build_summary"
Prompted == built # <<>> /\ Get(built).fn = "build_prompt"

IsSuffixOf(s, t) ==
    /\ Len(s) <= Len(t)
    /\ \A k \in 1..Len(s) : s[k] = t[Len(t) - Len(s) + k]

\* what a summary capped from the text combined must be: the text itself
\* when it fits, else the ellipsis followed by the end of the text, which
\* fills the cap
CappedFrom(result, combined) ==
    /\ Len(result) <= MAX_SUMMARY_CHARS
    /\ IF Len(combined) <= MAX_SUMMARY_CHARS
       THEN result = combined
       ELSE /\ Len(result) = MAX_SUMMARY_CHARS
            /\ result[1] = Ellipsis
            /\ IsSuffixOf(Tail(result), combined)

\* C16: the stored summary never exceeds MAX_SUMMARY_CHARS, after every
\* call in a sequence of compressions; each build_summary result is the
\* combined text (existing summary, newline, compressed turns) when that
\* fits, and otherwise keeps the end of the combined text: only the oldest
\* characters are dropped.
C16_SummaryCapped ==
    /\ Len(summary) <= MAX_SUMMARY_CHARS
    /\ Summarised =>
         /\ summary = Get(built).result
         /\ CappedFrom(Get(built).result,
                       combined_summary(Get(built).existing_summary,
                                        Get(built).turns_to_compress))
    /\ (Prompted /\ Get(built).result.older # <<>>) =>
         Len(Get(built).result.updated_summary) <= MAX_SUMMARY_CHARS

\* a second compression whose combined text exceeds the cap: the summary
\* kept fills the cap and ends with the newest compressed turn
C16_Witness ==
    /\ Summarised
    /\ Get(built).count = 2
    /\ Get(built).turns_to_compress # <<>>
    /\ Len(combined_summary(Get(built).existing_summary,
                            Get(built).turns_to_compress)) > MAX_SUMMARY_CHARS
    /\ Len(summary) = MAX_SUMMARY_CHARS

\* C17: when build_prompt finds older messages, the summary it returns is
\* the existing summary with the compression of the older messages added
\* after it, capped: build_summary(existing_summary, older).
C17_SummaryExtended ==
    (Prompted /\ Get(built).result.older # <<>>) =>
        Get(built).result.updated_summary =
            build_summary(Get(built).existing_summary, Get(built).result.older)

\* C17, the part the code keeps: the summary returned is the capped
\* compression of the older messages alone.
C17_SummaryOfOlderOnly ==
    (Prompted /\ Get(built).result.older # <<>>) =>
        Get(built).result.updated_summary =
            build_summary(<<>>, Get(built).result.older)

\* a stored summary is passed with eight messages, two of them older: the
\* summary returned holds the two compressed messages and nothing of the
\* stored summary, which would fit the cap with room to spare
C17_Dropped ==
    /\ Prompted
    /\ Len(Get(built).all_messages) = recent_count + 2
    /\ Get(built).existing_summary = sEarlier
    /\ Len(Get(built).result.older) = 2
    /\ Get(built).result.updated_summary =
           compress_message(sUser, Get(built).result.older[1].content)
           \o <<"\n">>
           \o compress_message(sAssistant, Get(built).result.older[2].content)
    /\ ~IsPrefixOf(sEarlier, Get(built).result.updated_summary)
    /\ Len(sEarlier) + 1 + Len(Get(built).result.updated_summary)
           <= MAX_SUMMARY_CHARS

\* C18: when the conversation has at most 2 * RECENT_TURN_COUNT messages, so
\* that older is empty, the summary build_prompt returns is the existing
\* summary it was given, unchanged.
C18_SummaryCarriedForward ==
    (Prompted /\ Len(Get(built).all_messages) <= 2 * RECENT_TURN_COUNT) =>
        /\ Get(built).result.older = <<>>
        /\ Get(built).result.updated_summary = Get(built).existing_summary
        /\ summary = Get(built).existing_summary

\* a stored, non-empty summary carried through a prompt built at exactly
\* 2 * RECENT_TURN_COUNT messages
C18_Witness ==
    /\ Prompted
    /\ Len(Get(built).all_messages) = 2 * RECENT_TURN_COUNT
    /\ Get(built).existing_summary = sEarlier
    /\ Get(built).result.updated_summary = sEarlier

\* C19: build_prompt splits the messages into older followed by recent with
\* nothing lost, moved or repeated: recent is the last 2 * RECENT_TURN_COUNT
\* messages and older all the messages before them; a conversation of at
\* most 2 * RECENT_TURN_COUNT messages is recent as a whole and older is
\* empty.  After 10 exchanges recent is the last 6 messages and the 14
\* older ones give a summary that is not empty.
C19_Partition ==
    Prompted =>
        LET all == Get(built).all_messages
            older == Get(built).result.older
            recent == Get(built).result.recent
            n == Len(all)
        IN  /\ older \o recent = all
            /\ IF n <= 2 * RECENT_TURN_COUNT
               THEN recent = all /\ older = <<>>
               ELSE /\ Len(recent) = 2 * RECENT_TURN_COUNT
                    /\ \A k \in 1..(2 * RECENT_TURN_COUNT) :
                           recent[k] = all[n - 2 * RECENT_TURN_COUNT + k]
                    /\ \A k \in 1..(n - 2 * RECENT_TURN_COUNT) :
                           older[k] = all[k]
            /\ (n = 20 /\ RECENT_TURN_COUNT = 3) =>
                   /\ Len(recent) = 6
                   /\ Len(older) = 14
                   /\ Get(built).result.updated_summary # <<>>

\* the prompt built after 10 exchanges
C19_Witness ==
    /\ Prompted
    /\ Len(Get(built).all_messages) = 20
    /\ Len(Get(built).result.recent) = 6
    /\ Len(Get(built).result.older) = 14
    /\ Get(built).result.recent[6] = Get(built).all_messages[20]
    /\ summary # <<>>

\* the place of a block in the order of the prompt, told by its opening tag
BlockKind(block) ==
    CASE StartsWith(block, sDiagOpen)    -> 1
      [] StartsWith(block, sNoteOpen)    -> 2
      [] StartsWith(block, sSummaryOpen) -> 3
      [] StartsWith(block, sRecentOpen)  -> 4
      [] OTHER                           -> 0

HasBlock(blocks, kind) ==
    \E k \in 2..Len(blocks) : BlockKind(blocks[k]) = kind

NotesIn(blocks) == {k \in 2..Len(blocks) : BlockKind(blocks[k]) = 2}

\* C21: every prompt build_prompt returns holds exactly one behaviour note,
\* chosen by is_device_query alone, whatever the message history: the note
\* on reusing earlier results when it is true, the note on answering
\* directly when it is false.
C21_ExactlyOneNote ==
    Prompted =>
        LET blocks == Get(built).result.blocks
        IN  /\ Cardinality(NotesIn(blocks)) = 1
            /\ \A k \in NotesIn(blocks) :
                   blocks[k] = IF Get(built).is_device_query
                               THEN sDeviceNote ELSE sDirectNote

\* C21, the part the code keeps: at most one note, chosen by
\* is_device_query, and missing exactly when the question is not a device
\* query and the history holds no assistant message.
C21_NoteUnlessNoHistory ==
    Prompted =>
        LET blocks == Get(built).result.blocks
            all == Get(built).all_messages
        IN  /\ Cardinality(NotesIn(blocks)) <= 1
            /\ \A k \in NotesIn(blocks) :
                   blocks[k] = IF Get(built).is_device_query
                               THEN sDeviceNote ELSE sDirectNote
            /\ NotesIn(blocks) = {} <=>
                   /\ ~Get(built).is_device_query
                   /\ \A k \in DOMAIN all : all[k].role # "assistant"

\* the first question of a conversation, not a device query: the prompt is
\* the question alone, with no note
C21_NoNote ==
    /\ Prompted
    /\ Get(built).all_messages = <<>>
    /\ ~Get(built).is_device_query
    /\ Get(built).diagnostic_state.status = "idle"
    /\ Get(built).existing_summary = <<>>
    /\ Get(built).result.prompt = Get(built).current_question

\* the widest window to_prompt_block applies to a list (findings[-5:])
WidestWindow == 5

\* the diagnostic state with each list held to the last WidestWindow
\* entries: the most that a block of bounded size may show of it
Windowed(st) ==
    [st EXCEPT !.root_causes = LastItems(@, WidestWindow)]

\* the longest line of the recent block: label, colon, space and a content
\* cut to two halves of MAX_RECENT_MSG_CHARS around the cut mark
RecentLineBound ==
    Len(sAssistant) + 2 + MAX_RECENT_MSG_CHARS + Len(sCutMark)

\* an upper bound of the parts of a prompt other than the question and the
\* diagnostic block: separators, the longer note, a full summary block and
\* 2 * RECENT_TURN_COUNT longest recent lines
FixedPartBound ==
    4 * 2
    + Len(sDiagOpen) + Len(sDiagClose)
    + (IF Len(sDeviceNote) > Len(sDirectNote)
       THEN Len(sDeviceNote) ELSE Len(sDirectNote))
    + Len(sSummaryOpen) + MAX_SUMMARY_CHARS + Len(sSummaryClose)
    + Len(sRecentOpen) + Len(sRecentClose)
    + 2 * RECENT_TURN_COUNT * RecentLineBound
    + (2 * RECENT_TURN_COUNT - 1) * 2

\* C22: the length of a prompt is bounded whatever the number of turns: a
\* question, at most 2 * RECENT_TURN_COUNT capped recent messages, a summary
\* of at most MAX_SUMMARY_CHARS, and a diagnostic block that does not grow
\* as the diagnostic state accumulates entries over the turns.
C22_PromptBounded ==
    Prompted =>
        LET st == Get(built).diagnostic_state
        IN  /\ Len(to_prompt_block(st)) <= Len(to_prompt_block(Windowed(st)))
            /\ Len(Get(built).result.prompt)
                   <= Len(Get(built).current_question) + FixedPartBound
                      + Len(to_prompt_block(Windowed(st)))

\* C22, the part the code keeps: apart from the diagnostic block, whose
\* length is that of all the root causes recorded, the prompt is bounded.
C22_BoundedButForBlock ==
    Prompted =>
        /\ Len(Get(built).result.recent) <= 2 * RECENT_TURN_COUNT
        /\ Len(Get(built).result.updated_summary) <= MAX_SUMMARY_CHARS
        /\ Len(Get(built).result.prompt)
               <= Len(Get(built).current_question) + FixedPartBound
                  + Len(to_prompt_block(Get(built).diagnostic_state))

\* after six answers that each name a new root cause the block lists the
\* six of them
C22_Grown ==
    /\ Prompted
    /\ Len(Get(built).diagnostic_state.root_causes) = WidestWindow + 1
    /\ Len(to_prompt_block(Get(built).diagnostic_state))
           > Len(to_prompt_block(Windowed(Get(built).diagnostic_state)))

(***************************************************************************)
(* build_context_prompt of src/app.py (src/prompt_utils.py holds the same  *)
(* function): the prompt of a question that cannot resume a session, the   *)
(* question followed by the most recent messages within a budget.          *)
(***************************************************************************)
MAX_HISTORY_CHARS == 50000
HistoryCutMin == 200

\* _IP_PATTERN, line 60
sIpPrefix ==
    <<"1", "0", ".", "1", ".", "1", ".">>

\* _IP_PATTERN matched at position i: 10.1.1. then 45..49 or 50, and no
\* digit after it
ip_match_at(s, i) ==
    /\ MatchAt(s, i, sIpPrefix)
    /\ i + Len(sIpPrefix) + 1 <= Len(s)
    /\ LET j == i + Len(sIpPrefix)
       IN  /\ \/ s[j] = "4" /\ s[j + 1] \in {"5", "6", "7", "8", "9"}
              \/ s[j] = "5" /\ s[j + 1] = "0"
           /\ ~(j + 2 <= Len(s) /\ s[j + 2] \in DigitSet)

\* _has_device: _extract_ip(question) is not None
has_device(question) == \E i \in 1..Len(question) : ip_match_at(question, i)

\* lines 135-140
sDebugNote ==
    <<"A", "n", "s", "w", "e", "r", " ", "t", "h", "e", " ", "q", "u", "e",
      "s", "t", "i", "o", "n", " ", "a", "b", "o", "v", "e", ",", " ", "u",
      "s", "i", "n", "g", " ", "h", "i", "s", "t", "o", "r", "y", " ", "f",
      "o", "r", " ", "c", "o", "n", "t", "e", "x", "t", ".", " ", "I", "f",
      " ", "l", "o", "g", "s", " ", "w", "e", "r", "e", " ", "a", "l", "r",
      "e", "a", "d", "y", " ", "d", "o", "w", "n", "l", "o", "a", "d", "e",
      "d", " ", "a", "n", "d", " ", "a", "n", "a", "l", "y", "z", "e", "d",
      " ", "i", "n", " ", "t", "h", "e", " ", "h", "i", "s", "t", "o", "r",
      "y", ",", " ", "r", "e", "u", "s", "e", " ", "t", "h", "o", "s", "e",
      " ", "r", "e", "s", "u", "l", "t", "s", " ", EmDash, " ", "d", "o",
      " ", "N", "O", "T", " ", "r", "e", "-", "d", "o", "w", "n", "l", "o",
      "a", "d", " ", "u", "n", "l", "e", "s", "s", " ", "t", "h", "e", " ",
      "u", "s", "e", "r", " ", "e", "x", "p", "l", "i", "c", "i", "t", "l",
      "y", " ", "a", "s", "k", "s", " ", "f", "o", "r", " ", "f", "r", "e",
      "s", "h", "/", "n", "e", "w", " ", "l", "o", "g", "s", ".">>
\* lines 142-147
sPlainNote ==
    <<"A", "n", "s", "w", "e", "r", " ", "t", "h", "e", " ", "q", "u", "e",
      "s", "t", "i", "o", "n", " ", "a", "b", "o", "v", "e", " ", "d", "i",
      "r", "e", "c", "t", "l", "y", ".", " ", "T", "h", "e", " ", "h", "i",
      "s", "t", "o", "r", "y", " ", "m", "a", "y", " ", "c", "o", "n", "t",
      "a", "i", "n", " ", "l", "o", "g", " ", "a", "n", "a", "l", "y", "s",
      "i", "s", " ", "o", "r", " ", "d", "e", "v", "i", "c", "e", " ", "d",
      "e", "b", "u", "g", "g", "i", "n", "g", ",", " ", "b", "u", "t", " ",
      "t", "h", "e", " ", "c", "u", "r", "r", "e", "n", "t", " ", "q", "u",
      "e", "s", "t", "i", "o", "n", " ", "i", "s", " ", "N", "O", "T", " ",
      "a", "b", "o", "u", "t", " ", "t", "h", "a", "t", " ", EmDash, " ",
      "d", "o", " ", "n", "o", "t", " ", "d", "o", "w", "n", "l", "o", "a",
      "d", " ", "l", "o", "g", "s", " ", "o", "r", " ", "a", "n", "a", "l",
      "y", "z", "e", " ", "d", "e", "v", "i", "c", "e", "s", ".", " ", "J",
      "u", "s", "t", " ", "a", "n", "s", "w", "e", "r", " ", "t", "h", "e",
      " ", "q", "u", "e", "s", "t", "i", "o", "n", ".">>
sHistoryOpen ==
    <<"<", "c", "o", "n", "v", "e", "r", "s", "a", "t", "i", "o", "n", "_",
      "h", "i", "s", "t", "o", "r", "y", ">", "\n">>
sHistoryClose ==
    <<"\n", "<", "/", "c", "o", "n", "v", "e", "r", "s", "a", "t", "i", "o",
      "n", "_", "h", "i", "s", "t", "o", "r", "y", ">">>

\* line 123: f"{role}: {content}"
history_entry(msg) == role_label(msg) \o <<":", " ">> \o msg.content

\* line 127: the entry of the message that does not fit
cut_entry(msg, remaining) ==
    role_label(msg) \o <<":", " ">> \o FirstChars(msg.content, remaining)
    \o <<Ellipsis>>

\* Faulty variant: the list is left newest first.
reversed_not(parts) == parts

\* list.reverse()
reversed(parts) == [k \in DOMAIN parts |-> parts[Len(parts) + 1 - k]]

\* lines 120-130: the loop over reversed(messages), from message k down with
\* total_chars counted so far; the parts appended, newest first
RECURSIVE history_loop(_, _, _)
history_loop(msgs, k, total_chars) ==
    IF k = 0 THEN <<>>
    ELSE IF total_chars + Len(msgs[k].content) + Len(role_label(msgs[k])) + 2
                > MAX_HISTORY_CHARS
    THEN IF MAX_HISTORY_CHARS - total_chars > HistoryCutMin
         THEN <<cut_entry(msgs[k], MAX_HISTORY_CHARS - total_chars)>>
         ELSE <<>>
    ELSE <<history_entry(msgs[k])>>
         \o history_loop(msgs, k - 1,
                         total_chars + Len(msgs[k].content)
                         + Len(role_label(msgs[k])) + 2)

\* build_context_prompt, lines 99-155.  prompt is the string returned;
\* history_parts and is_debug are the locals of these names.
build_context_prompt(msgs, new_question, raw_user_input) ==
    IF msgs = <<>>
    THEN [prompt |-> new_question, history_parts |-> <<>>, is_debug |-> FALSE]
    ELSE LET is_debug == has_device(IF raw_user_input # <<>>
                                    THEN raw_user_input ELSE new_question)
             history_parts == reversed(history_loop(msgs, Len(msgs), 0))
             note == IF is_debug THEN sDebugNote ELSE sPlainNote
         IN  [prompt |-> new_question \o <<"\n", "\n">> \o sHistoryOpen \o note
                         \o <<"\n", "\n">>
                         \o Join(history_parts, <<"\n", "\n">>)
                         \o sHistoryClose,
              history_parts |-> history_parts,
              is_debug |-> is_debug]

(***************************************************************************)
(* The context prompt on its own: messages are added to a conversation     *)
(* and the prompt of a question is built from the messages so far.         *)
(***************************************************************************)
MaxMessages == 6

CtxVocabularies == {"brief", "filling", "tight", "exact", "whole"}

\* the content of message k, by family.  Four messages of "filling" leave
\* room for a part of the fifth, four of "tight" leave less than the room
\* a cut entry needs, four of "exact" fill the budget to the character, and
\* the first message of "whole" fits the room left but for its label.
CtxContent(v, k) ==
    CASE v = "brief"   -> IF k % 2 = 1 THEN UserText("brief", k)
                          ELSE AssistantText("brief", k)
      [] v = "filling" -> Rep("m", 12000)
      [] v = "tight"   -> Rep("m", 12450)
      [] v = "exact"   -> IF k % 2 = 1 THEN Rep("m", 12492) ELSE Rep("m", 12491)
      [] v = "whole"   -> IF k = 1 THEN Rep("m", 1963) ELSE Rep("m", 12000)

CtxMessage(v, k) ==
    IF k % 2 = 1 THEN UserMessage(CtxContent(v, k))
    ELSE AssistantMessage(CtxContent(v, k))

sDeviceQuestion ==
    <<"c", "h", "e", "c", "k", " ", "t", "h", "e", " ", "l", "o", "g", "s",
      " ", "o", "f", " ", "1", "0", ".", "1", ".", "1", ".", "4", "7", " ",
      "p", "l", "e", "a", "s", "e">>

CtxQuestions == {sQuestion, sDeviceQuestion}
CtxRawInputs == {<<>>, sDeviceQuestion}

\* a message is stored in the conversation
AddMessage ==
    /\ Len(messages) < MaxMessages
    /\ messages' = Append(messages, CtxMessage(vocab, Len(messages) + 1))
    /\ built' = <<>>
    /\ UNCHANGED <<vocab, pc, session_id, accumulated, events, proc, reads,
                   steps, truth, scripted, finalSent, killCalls, cp, appvars,
                   state, extractions, summary>>

\* enriched = build_context_prompt(messages, enriched, prompt)
BuildContext ==
    /\ built = <<>>
    /\ \E new_question \in CtxQuestions, raw_user_input \in CtxRawInputs :
         \E r \in {build_context_prompt(messages, new_question,
                                        raw_user_input)} :
             built' = Some([fn |-> "build_context_prompt",
                            new_question |-> new_question,
                            raw_user_input |-> raw_user_input,
                            result |-> r])
    /\ UNCHANGED <<vocab, pc, session_id, accumulated, events, proc, reads,
                   steps, truth, scripted, finalSent, killCalls, cp, appvars,
                   state, extractions, messages, summary>>

InitCtx ==
    /\ vocab \in CtxVocabularies
    /\ pc = "context"
    /\ session_id = <<>>
    /\ accumulated = <<>>
    /\ events = <<>>
    /\ proc = <<>>
    /\ reads = <<>>
    /\ steps = <<>>
    /\ truth = <<>>
    /\ scripted = TRUE
    /\ finalSent = FALSE
    /\ killCalls = <<>>
    /\ cp = NoCall
    /\ NoMemory
    /\ NoApp

NextCtx ==
    \/ AddMessage
    \/ BuildContext

SpecCtx == InitCtx /\ [][NextCtx]_vars

\* the last call, when it was one of build_context_prompt
Contexted == built # <<>> /\ Get(built).fn = "build_context_prompt"

\* part is the entry of msg with its content cut and an ellipsis added
IsCutOf(part, msg) ==
    LET kept == Len(part) - Len(role_label(msg)) - 3
    IN  /\ kept >= 0
        /\ kept <= Len(msg.content)
        /\ part = role_label(msg) \o <<":", " ">>
                  \o FirstChars(msg.content, kept) \o <<Ellipsis>>

C23_WitnessBrief ==
    /\ Contexted
    /\ vocab = "brief"
    /\ Len(messages) = 4
    /\ Len(Get(built).result.history_parts) = 4

\* the summed length of the parts of a history
RECURSIVE SumLen(_)
SumLen(parts) ==
    IF parts = <<>> THEN 0 ELSE Len(Head(parts)) + SumLen(Tail(parts))

\* the summed length of the entries of the j newest messages
RECURSIVE NewestLen(_, _)
NewestLen(msgs, j) ==
    IF j = 0 THEN 0
    ELSE Len(history_entry(msgs[Len(msgs) - j + 1])) + NewestLen(msgs, j - 1)

\* how many of the newest messages fit the budget as whole entries
FitCount(msgs) ==
    CHOOSE j \in 0..Len(msgs) :
        /\ NewestLen(msgs, j) <= MAX_HISTORY_CHARS
        /\ j < Len(msgs) => NewestLen(msgs, j + 1) > MAX_HISTORY_CHARS

\* C24: the history never exceeds the budget: the summed length of the
\* entries included is at most MAX_HISTORY_CHARS; when the next older
\* message would exceed the budget, that message is the oldest one
\* included, cut and ended by an ellipsis so as to fit, and no older
\* message is included.
C24_HistoryWithinBudget ==
    Contexted =>
        LET parts == Get(built).result.history_parts
            m == Len(messages)
            f == FitCount(messages)
        IN  /\ SumLen(parts) <= MAX_HISTORY_CHARS
            /\ f < m =>
                   /\ Len(parts) = f + 1
                   /\ IsCutOf(parts[1], messages[m - f])
                   /\ parts[1] # history_entry(messages[m - f])

\* C24, the part the code keeps: the whole entries fit the budget; the
\* message that does not fit is included only when more than HistoryCutMin
\* characters are left, with as many characters of its content as are left,
\* so that its label and the ellipsis come on top of the budget.
C24_BudgetButForCut ==
    Contexted =>
        LET parts == Get(built).result.history_parts
            m == Len(messages)
            f == FitCount(messages)
            left == MAX_HISTORY_CHARS - NewestLen(messages, f)
        IN  /\ f = m => Len(parts) = m /\ SumLen(parts) <= MAX_HISTORY_CHARS
            /\ (f < m /\ left <= HistoryCutMin) =>
                   Len(parts) = f /\ SumLen(parts) <= MAX_HISTORY_CHARS
            /\ (f < m /\ left > HistoryCutMin) =>
                   /\ Len(parts) = f + 1
                   /\ parts[1] = cut_entry(messages[m - f], left)
                   /\ SumLen(parts) > MAX_HISTORY_CHARS
                   /\ SumLen(parts) <= MAX_HISTORY_CHARS + Len(sAssistant) + 3

\* five messages of 12000 characters: the history holds four whole entries
\* and the cut one, 50007 characters in all
C24_Exceeded ==
    /\ Contexted
    /\ vocab = "filling"
    /\ Len(messages) = 5
    /\ Len(Get(built).result.history_parts) = 5
    /\ SumLen(Get(built).result.history_parts) = MAX_HISTORY_CHARS + 7

\* five messages of 12450 characters: 166 characters are left after four
\* entries and the fifth message is left out, not cut
C24_LeftOut ==
    /\ Contexted
    /\ vocab = "tight"
    /\ Len(messages) = 5
    /\ Len(Get(built).result.history_parts) = 4
    /\ MAX_HISTORY_CHARS - SumLen(Get(built).result.history_parts) = 166

\* the events handed to the caller so far, up to the n-th
EventsUpTo(n) == SubSeq(events, 1, n)

ReplacesAt == {i \in DOMAIN events : events[i][1] = "text_replace"}

\* C29: in the streaming loop of the chat application the text the caller
\* holds (full_response, copied to the saved partial response) is the
\* reconciler's accumulated text after every event: a replace operation
\* makes the caller drop what it held and hold the replacement, so that the
\* message persisted at the end is the reconciler's final text.  (Streams
\* with an error event are left aside: there the caller holds the error.)
C29_CallerHoldsAccumulated ==
    ErrorsAt = {} =>
        /\ \A n \in 0..Len(events) :
               app_loop(<<>>, EventsUpTo(n)) = Render(EventsUpTo(n))
        /\ app_loop(<<>>, events) = accumulated

\* C29, the part the code keeps: the loop of the chat application appends
\* the text events and has no branch for text_replace, so it holds the
\* accumulated text as long as no replace operation was emitted; the loop of
\* the summarization worker has the branch and always holds it.
C29_CallerAppendsOnly ==
    ErrorsAt = {} =>
        /\ worker_loop(<<>>, events) = accumulated
        /\ ReplacesAt = {} => app_loop(<<>>, events) = accumulated
        /\ \A i \in ReplacesAt :
               app_loop(<<>>, EventsUpTo(i)) = app_loop(<<>>, EventsUpTo(i - 1))

\* the stream has ended after a replace operation: the caller holds the
\* text streamed before the replacement, not the reconciler's final text
C29_Stale ==
    /\ pc = "finished"
    /\ ErrorsAt = {}
    /\ ReplacesAt # {}
    /\ accumulated = events[Len(events) - 1][2]
    /\ events[Len(events) - 1][1] = "text_replace"
    /\ app_loop(<<>>, events) # accumulated
    /\ app_loop(<<>>, events) # <<>>

(***************************************************************************)
(* The knowledge base: start_summarization of src/knowledge.py, the worker *)
(* process it spawns (python -m knowledge summarize ...) and the row of    *)
(* the table liked_entries of src/db.py that both work on.  One            *)
(* (conversation, message) key is followed; callers are browser sessions   *)
(* that press Like for it, each statement of db.py is one step.            *)
(***************************************************************************)
MaxStarts == 2

InProgress == {"pending", "summarizing"}

\* a row of liked_entries
LikedEntry(status, worker_pid, file_path) ==
    [status |-> status, worker_pid |-> worker_pid, file_path |-> file_path]

sLikedFile ==
    <<"l", "i", "k", "e", "d", "_", "a", "n", "s", "w", "e", "r", "s", "/",
      "l", "i", "k", "e", "d", "_", "P", "u", "m", "p", "_", "2", "0", "2",
      "4", "-", "0", "1", "-", "1", "5", ".", "m", "d">>

\* db.create_liked_entry, lines 299-311: INSERT OR REPLACE of the row
create_liked_entry(liked, worker_pid) ==
    Some(LikedEntry(IF worker_pid # <<>> THEN "summarizing" ELSE "pending",
                    worker_pid, <<>>))

\* db.update_liked_status, lines 314-334: UPDATE of the row, if there is one
update_liked_status(liked, status, file_path) ==
    IF liked = <<>> THEN liked
    ELSE Some([Get(liked) EXCEPT
                 !.status = status,
                 !.worker_pid = <<>>,
                 !.file_path = IF file_path # <<>> THEN file_path ELSE @])

\* the database with the row of the key followed
LikedDb(liked) == [conversations |-> <<>>, liked |-> liked]

\* what a caller and a worker are before they start
NewCaller == [pc |-> "idle", existing |-> <<>>, pid |-> <<>>, result |-> <<>>]
NewWorker(by) == [pc |-> "started", by |-> by, path |-> <<>>]

\* start_summarization, lines 120-125: the entry is read and the call
\* returns failure when it is in progress or completed
StartRead(i) ==
    /\ callers[i].pc = "idle"
    /\ LET existing == db.liked
       IN  IF existing # <<>>
              /\ Get(existing).status \in InProgress \cup {"completed"}
           THEN callers' = [callers EXCEPT ![i].pc = "returned",
                                           ![i].existing = existing,
                                           ![i].result = Some(FALSE)]
           ELSE callers' = [callers EXCEPT ![i].pc = "spawn",
                                           ![i].existing = existing]
    /\ UNCHANGED <<vocab, clivars, memvars, db, workers, ui, agents>>

\* lines 128-134: subprocess.Popen starts the worker, which runs from now
\* on; its pid is its place in workers
StartSpawn(i) ==
    /\ callers[i].pc = "spawn"
    /\ workers' = Append(workers, NewWorker(i))
    /\ callers' = [callers EXCEPT ![i].pc = "create",
                                  ![i].pid = Some(Len(workers) + 1)]
    /\ UNCHANGED <<vocab, clivars, memvars, db, ui, agents>>

\* lines 137-138: subprocess.Popen raises
StartFails(i) ==
    /\ callers[i].pc = "spawn"
    /\ callers' = [callers EXCEPT ![i].pc = "returned",
                                  ![i].result = Some(FALSE)]
    /\ UNCHANGED <<vocab, clivars, memvars, db, workers, ui, agents>>

\* lines 135-136: db.create_liked_entry(..., worker_pid=proc.pid)
StartCreate(i) ==
    /\ callers[i].pc = "create"
    /\ db' = [db EXCEPT !.liked = create_liked_entry(@, callers[i].pid)]
    /\ callers' = [callers EXCEPT ![i].pc = "returned",
                                  ![i].result = Some(TRUE)]
    /\ UNCHANGED <<vocab, clivars, memvars, workers, ui, agents>>

\* _run_summarization_worker, lines 54-56: the worker reads the entry and
\* gives up when there is none or it is not in progress
WorkerRead(w) ==
    /\ workers[w].pc = "started"
    /\ LET entry == db.liked
       IN  workers' = [workers EXCEPT ![w].pc =
                          IF entry = <<>> \/ Get(entry).status \notin InProgress
                          THEN "failed" ELSE "working"]
    /\ UNCHANGED <<vocab, clivars, memvars, db, callers, ui, agents>>

\* lines 58-61, 73-75, 88-90: no message, no agent or no answer: the worker
\* sets the status cancelled and returns None
WorkerGivesUp(w) ==
    /\ workers[w].pc = "working"
    /\ db' = [db EXCEPT !.liked = update_liked_status(@, "cancelled", <<>>)]
    /\ workers' = [workers EXCEPT ![w].pc = "failed"]
    /\ UNCHANGED <<vocab, clivars, memvars, callers, ui, agents>>

\* lines 63-110: the agent answers, the file is written, its path returned
WorkerWrites(w) ==
    /\ workers[w].pc = "working"
    /\ workers' = [workers EXCEPT ![w].pc = "written",
                                  ![w].path = Some(sLikedFile)]
    /\ UNCHANGED <<vocab, clivars, memvars, db, callers, ui, agents>>

\* __main__, lines 181-182: the status completed with the file path
WorkerCompletes(w) ==
    /\ workers[w].pc = "written"
    /\ db' = [db EXCEPT !.liked =
                 update_liked_status(@, "completed", workers[w].path)]
    /\ workers' = [workers EXCEPT ![w].pc = "exited"]
    /\ UNCHANGED <<vocab, clivars, memvars, callers, ui, agents>>

\* __main__, lines 183-187: no path or an exception: the status cancelled
WorkerCancels(w) ==
    /\ workers[w].pc \in {"failed", "working"}
    /\ db' = [db EXCEPT !.liked = update_liked_status(@, "cancelled", <<>>)]
    /\ workers' = [workers EXCEPT ![w].pc = "exited"]
    /\ UNCHANGED <<vocab, clivars, memvars, callers, ui, agents>>

\* the cursor_cli variables when no stream is involved
NoCli ==
    /\ session_id = <<>>
    /\ accumulated = <<>>
    /\ events = <<>>
    /\ proc = <<>>
    /\ reads = <<>>
    /\ steps = <<>>
    /\ truth = <<>>
    /\ scripted = TRUE
    /\ finalSent = FALSE
    /\ killCalls = <<>>
    /\ cp = NoCall

\* the row the key has before the first call: none, or one left by an
\* earlier summarization
LikedBefore ==
    { <<>>,
      Some(LikedEntry("cancelled", <<>>, <<>>)),
      Some(LikedEntry("completed", <<>>, Some(sLikedFile))) }

InitLiked ==
    /\ vocab = "liked"
    /\ pc = "knowledge"
    /\ NoCli
    /\ NoMemory
    /\ db \in {LikedDb(liked) : liked \in LikedBefore}
    /\ callers = [i \in 1..MaxStarts |-> NewCaller]
    /\ workers = <<>>
    /\ ui = <<>>
    /\ agents = <<>>

NextLiked ==
    \/ \E i \in DOMAIN callers :
         \/ StartRead(i)
         \/ StartSpawn(i)
         \/ StartFails(i)
         \/ StartCreate(i)
    \/ \E w \in DOMAIN workers :
         \/ WorkerRead(w)
         \/ WorkerGivesUp(w)
         \/ WorkerWrites(w)
         \/ WorkerCompletes(w)
         \/ WorkerCancels(w)

SpecLiked == InitLiked /\ [][NextLiked]_vars

\* the worker whose pid the row carries, if the row carries one
OwnerOf(liked) == Get(Get(liked).worker_pid)

\* worker w has exited and the call that started it has returned
Settled(w) ==
    /\ workers[w].pc = "exited"
    /\ callers[workers[w].by].pc = "returned"

\* C30: every summarization that was started leaves the statuses pending
\* and summarizing: once the worker has exited (and the call that started
\* it has returned) the row is completed, cancelled or gone, and is not
\* left in progress in the name of that worker, however create_liked_entry
\* of the caller falls between the steps of the worker.
C30_NoEntryLeftInProgress ==
    \A w \in DOMAIN workers :
        (Settled(w) /\ db.liked # <<>>
         /\ Get(db.liked).status \in InProgress
         /\ Get(db.liked).worker_pid # <<>>)
        => OwnerOf(db.liked) # w

\* the worker ran to its end before the caller created the row: everything
\* has returned or exited and the row says summarizing, with the pid of a
\* process that no longer exists
C30_Stuck ==
    /\ \A i \in DOMAIN callers : callers[i].pc = "returned"
    /\ \A w \in DOMAIN workers : workers[w].pc = "exited"
    /\ Len(workers) = 1
    /\ db.liked = Some(LikedEntry("summarizing", Some(1), <<>>))

(***************************************************************************)
(* The chat application, src/app.py, as Streamlit runs it: one script      *)
(* thread per browser session, run again from the top on every             *)
(* interaction.  A run that is under way is stopped at the next call that  *)
(* draws an element; reads and writes of st.session_state and calls of db  *)
(* are not such calls.  The sessions are tabs of one client address and so *)
(* list the same conversations.  Deleting a conversation and the settings  *)
(* are left out; the prompt text handed to the agent does not choose what  *)
(* the agent answers.                                                      *)
(***************************************************************************)
Tabs == {1, 2}
MaxClicks == 2

AppVocabularies == {"streamed", "rewritten", "failing", "tooling"}

sAsk ==
    <<"w", "h", "y", " ", "d", "o", "e", "s", " ", "t", "h", "e", " ", "p",
      "u", "m", "p", " ", "s", "t", "a", "l", "l", "?">>
sAskLong ==
    <<" ", " ", "t", "h", "e", " ", "p", "u", "m", "p", " ", "o", "n", " ",
      "i", "n", "s", "t", "r", "u", "m", "e", "n", "t", " ", "3", " ", "s",
      "t", "a", "l", "l", "s", " ", "a", "f", "t", "e", "r", " ", "e", "v",
      "e", "r", "y", " ", "w", "a", "r", "m", " ", "r", "e", "s", "t", "a",
      "r", "t", ",", " ", "w", "h", "y", "?", "\n", "l", "o", "g", " ", "a",
      "t", "t", "a", "c", "h", "e", "d">>
\* app.py line 299
sStoppedMark ==
    <<"\n", "\n", "*", "(", "g", "e", "n", "e", "r", "a", "t", "i", "o", "n",
      " ", "s", "t", "o", "p", "p", "e", "d", ")", "*">>
sNewChat ==
    <<"N", "e", "w", " ", "C", "h", "a", "t">>
sDots ==
    <<".", ".", ".">>
\* an error text of cursor_cli.create_process
sCannotStart ==
    <<"a", "g", "e", "n", "t", " ", "C", "L", "I", " ", "n", "o", "t", " ",
      "f", "o", "u", "n", "d">>
sToolLine ==
    <<"S", "h", "e", "l", "l", ":", " ", "t", "a", "i", "l", " ", "p", "u",
      "m", "p", ".", "l", "o", "g">>

\* app.py lines 56-58
auto_title(question) ==
    LET title == Split(Strip(question), <<"\n">>)[1]
    IN  IF Len(title) > 50 THEN SubSeq(title, 1, 47) \o sDots
        ELSE IF title # <<>> THEN title ELSE sNewChat

\* what the user types and what the agent then sends, by vocabulary: the
\* events cursor_cli.iter_events hands to the loop, in order
PromptOf(v) == IF v = "rewritten" THEN sAskLong ELSE sAsk

ScriptOf(v) ==
    CASE v = "streamed" ->
           << <<"session_id", sS1>>, <<"text", sHello>>,
              <<"text", sWorld>>, <<"done", <<"0">>>> >>
      [] v = "rewritten" ->
           << <<"text", sInvestigating>>, <<"text_replace", sRewritten150>>,
              <<"text", sBang>>, <<"done", <<"0">>>> >>
      [] v = "failing" ->
           << <<"error", sBoom>>, <<"done", <<"1">>>> >>
      [] v = "tooling" ->
           << <<"tool", sToolLine>>, <<"text", sHello>>,
              <<"done", <<"0">>>> >>

\* a row of the table conversations with its rows of the table messages
Conversation(title, msgs) ==
    [title |-> title, cli_session_id |-> <<>>, messages |-> msgs]

Message(role, content) == [role |-> role, content |-> content]

\* db.create_conversation, lines 108-118; the id is the place in the table
create_conversation(d, title) ==
    [d EXCEPT !.conversations = Append(@, Conversation(title, <<>>))]

\* db.add_message, lines 166-178
add_message(d, cid, role, content) ==
    [d EXCEPT !.conversations[cid].messages =
                  Append(@, Message(role, content))]

\* db.update_title, lines 181-186
update_title(d, cid, title) ==
    [d EXCEPT !.conversations[cid].title = title]

\* db.update_cli_session, lines 189-194
update_cli_session(d, cid, sid) ==
    [d EXCEPT !.conversations[cid].cli_session_id = Some(sid)]

IsUser(m) == m.role = "user"

\* app.py lines 302-305 and 603-605: the title is set from the prompt when
\* the conversation has exactly one user message
title_if_first(d, cid, prompt) ==
    IF Len(SelectSeq(d.conversations[cid].messages, IsUser)) = 1
    THEN update_title(d, cid, auto_title(prompt))
    ELSE d

\* st.session_state of a session and the place of its script thread
NewSession ==
    [ pc |-> "idle",
      request |-> <<>>,
      clicks |-> 0,
      listed |-> 1,
      current_conv |-> <<>>,
      streaming_proc |-> <<>>,
      partial_response |-> <<>>,
      streaming_conv_id |-> <<>>,
      auto_title_prompt |-> <<>>,
      conv_id |-> <<>>,
      prompt |-> <<>>,
      full_response |-> <<>> ]

\* an agent subprocess: the conversation and session it was started for,
\* how many of its events iter_events has handed over, how often the
\* title logic ran for its request, how many assistant messages were saved
\* for its request and, once it has been killed, the interaction that led
\* to it, the text the reconciler had accumulated then and the message
\* saved for it
NewAgent(cid, s) ==
    [ conv |-> cid, session |-> s, alive |-> TRUE, pos |-> 0,
      killed_on |-> <<>>, accumulated |-> <<>>, saved |-> <<>>,
      title_runs |-> 0, replies |-> 0 ]

\* the world a run of the script works on: the database, the agents and
\* the session's own record
World(d, ag, u) == [db |-> d, agents |-> ag, u |-> u]

\* Faulty variant: the interrupted run's process is left running.
kill_agent_not(ag, p, on, acc, saved) == ag

\* cursor_cli.kill_process, lines 133-145, on agent p; on, acc and saved
\* record why, and what was accumulated and saved
kill_agent(ag, p, on, acc, saved) ==
    IF ag[p].alive
    THEN [ag EXCEPT ![p].alive = FALSE,
                    ![p].killed_on = on,
                    ![p].accumulated = acc,
                    ![p].saved = saved]
    ELSE ag

\* the events of agent p handed over so far and what the reconciler has
\* accumulated over them
Handed(ag, p) == SubSeq(ScriptOf(vocab), 1, ag[p].pos)
AccumulatedOf(ag, p) == Render(Handed(ag, p))

\* app.py lines 292-305: the block at the top of the script
cleanup_block(w) ==
    IF w.u.streaming_proc = <<>> THEN w
    ELSE LET p       == Get(w.u.streaming_proc)
             partial == w.u.partial_response
             cid     == w.u.streaming_conv_id
             saves   == partial # <<>> /\ cid # <<>>
             d1      == IF saves
                        THEN add_message(w.db, Get(cid), "assistant",
                                         partial \o sStoppedMark)
                        ELSE w.db
             titles  == Truthy(w.u.auto_title_prompt) /\ cid # <<>>
             d2      == IF titles
                        THEN title_if_first(d1, Get(cid),
                                            Get(w.u.auto_title_prompt))
                        ELSE d1
             ag0     == IF saves
                        THEN [w.agents EXCEPT ![p].replies = @ + 1]
                        ELSE w.agents
             ag1     == IF titles
                        THEN [ag0 EXCEPT ![p].title_runs = @ + 1]
                        ELSE ag0
         IN  World(d2,
                   kill_agent(ag1, p, w.u.request,
                                AccumulatedOf(w.agents, p),
                                IF saves THEN Some(partial \o sStoppedMark)
                                ELSE <<>>),
                   [w.u EXCEPT !.streaming_proc = <<>>,
                               !.partial_response = <<>>,
                               !.streaming_conv_id = <<>>,
                               !.auto_title_prompt = <<>>])

\* the script has run to its end and waits for the next interaction
Idle(u) ==
    [u EXCEPT !.pc = "idle", !.request = <<>>,
              !.conv_id = <<>>, !.prompt = <<>>, !.full_response = <<>>]

\* app.py lines 491-540: the chat input holds a prompt; started tells
\* whether cursor_cli.create_process gave a process
chat_input(w, s, prompt, started) ==
    LET fresh == w.u.current_conv = <<>>
        d1    == IF fresh THEN create_conversation(w.db, auto_title(prompt))
                 ELSE w.db
        cid   == IF fresh THEN Len(d1.conversations)
                 ELSE Get(w.u.current_conv)
        d2    == add_message(d1, cid, "user", prompt)
        u1    == [w.u EXCEPT !.current_conv = Some(cid)]
    IN  IF started
        THEN World(d2,
                   Append(w.agents, NewAgent(cid, s)),
                   [u1 EXCEPT !.pc = "streaming",
                              !.request = <<>>,
                              !.streaming_proc = Some(Len(w.agents) + 1),
                              !.streaming_conv_id = Some(cid),
                              !.partial_response = <<>>,
                              !.auto_title_prompt = Some(prompt),
                              !.conv_id = Some(cid),
                              !.prompt = prompt,
                              !.full_response = <<>>])
        ELSE World(add_message(d2, cid, "assistant",
                               AppErrorPrefix \o sCannotStart),
                   w.agents,
                   Idle(u1))

\* app.py lines 399-540 for the interaction that asked for the run: a
\* button of the sidebar sets current_conv and runs the script again, the
\* Stop button only asks for the run, the chat input starts a request
handle_request(w, s, started) ==
    LET r == Get(w.u.request)
    IN  IF r[1] = "select"
        THEN World(w.db, w.agents, Idle([w.u EXCEPT !.current_conv = Some(r[2])]))
        ELSE IF r[1] = "new"
        THEN World(w.db, w.agents, Idle([w.u EXCEPT !.current_conv = <<>>]))
        ELSE IF r[1] = "submit"
        THEN chat_input(w, s, PromptOf(vocab), started)
        ELSE World(w.db, w.agents, Idle(w.u))

\* one run of the script from the top: the cleanup block, the sidebar
\* (which lists the conversations there are now), then the interaction
script_run(w, s, started) ==
    LET w1 == cleanup_block(w)
    IN  handle_request([w1 EXCEPT !.u.listed = Len(w1.db.conversations)],
                       s, started)

\* what a run needs to know beyond the state: whether the agent starts
Outcomes(u) ==
    IF u.request # <<>> /\ Get(u.request)[1] = "submit"
    THEN BOOLEAN ELSE {TRUE}

\* the widgets the page of session s shows
Widgets(s) ==
    {<<"new">>, <<"submit">>}
    \cup {<<"select", c>> : c \in 1..ui[s].listed}
    \cup (IF ui[s].pc = "streaming" THEN {<<"stop">>} ELSE {})

\* the user of session s presses a button or sends a prompt; Streamlit
\* notes that the script is to run again
Click(s) ==
    /\ ui[s].request = <<>>
    /\ ui[s].clicks < MaxClicks
    /\ \E r \in Widgets(s) :
         ui' = [ui EXCEPT ![s].request = Some(r), ![s].clicks = @ + 1]
    /\ UNCHANGED <<vocab, clivars, memvars, db, callers, workers, agents>>

\* no run is under way: the script runs for the interaction
Run(s) ==
    /\ ui[s].pc = "idle"
    /\ ui[s].request # <<>>
    /\ \E started \in Outcomes(ui[s]) :
         LET w == script_run(World(db, agents, ui[s]), s, started)
         IN  /\ db' = w.db
             /\ agents' = w.agents
             /\ ui' = [ui EXCEPT ![s] = w.u]
    /\ UNCHANGED <<vocab, clivars, memvars, callers, workers>>

\* the branches of the loop that draw an element (lines 555, 558, 570)
Draws(e) == e[1] \in {"text", "tool", "done"}

\* app.py lines 551-574: iter_events hands over the next event of the
\* session's agent and the loop takes its branch.  When the branch draws
\* and an interaction is waiting, the run ends there and the script runs
\* from the top; otherwise the loop goes on, or is left after done.
LoopEvent(s) ==
    /\ ui[s].pc = "streaming"
    /\ LET p  == Get(ui[s].streaming_proc)
           n  == agents[p].pos + 1
       IN  /\ n <= Len(ScriptOf(vocab))
           /\ LET e    == ScriptOf(vocab)[n]
                  full == app_on_event(ui[s].full_response, e)
                  u1   == [ui[s] EXCEPT
                             !.full_response = full,
                             !.partial_response =
                                 IF e[1] = "text" THEN full ELSE @]
                  d1   == IF e[1] = "session_id"
                          THEN update_cli_session(db, Get(ui[s].conv_id), e[2])
                          ELSE db
                  ag1  == [agents EXCEPT
                             ![p].pos = n,
                             ![p].alive = IF e[1] = "done" THEN FALSE ELSE @]
              IN  IF Draws(e) /\ ui[s].request # <<>>
                  THEN \E started \in Outcomes(ui[s]) :
                         LET w == script_run(World(d1, ag1, u1), s, started)
                         IN  /\ db' = w.db
                             /\ agents' = w.agents
                             /\ ui' = [ui EXCEPT ![s] = w.u]
                  ELSE /\ db' = d1
                       /\ agents' = ag1
                       /\ ui' = [ui EXCEPT ![s] =
                                   IF e[1] = "done"
                                   THEN [u1 EXCEPT !.pc = "completing"]
                                   ELSE u1]
    /\ UNCHANGED <<vocab, clivars, memvars, callers, workers>>

\* Faulty variant: normal completion leaves the streaming state in place.
clear_streaming_state_not(u) == u

\* app.py lines 593-596: normal completion clears the streaming state
clear_streaming_state(u) ==
    [u EXCEPT !.streaming_proc = <<>>,
              !.streaming_conv_id = <<>>,
              !.partial_response = <<>>,
              !.auto_title_prompt = <<>>]

\* app.py lines 576-607: the loop was left after done.  A chart or an image
\* found for the reply is drawn first (lines 581, 588): when an interaction
\* is waiting the run ends at that call and the script runs from the top.
\* Otherwise the streaming state is cleared, the reply saved, the title set,
\* and the script runs again.  The marker the chart or the images add to
\* the saved reply is left out.
Complete(s) ==
    /\ ui[s].pc = "completing"
    /\ \E draws \in BOOLEAN :
         IF draws /\ ui[s].request # <<>>
         THEN \E started \in Outcomes(ui[s]) :
                LET w == script_run(World(db, agents, ui[s]), s, started)
                IN  /\ db' = w.db
                    /\ agents' = w.agents
                    /\ ui' = [ui EXCEPT ![s] = w.u]
         ELSE LET p   == Get(ui[s].streaming_proc)
                  cid == Get(ui[s].conv_id)
                  d1  == IF ui[s].full_response # <<>>
                         THEN add_message(db, cid, "assistant",
                                          ui[s].full_response)
                         ELSE db
              IN  /\ db' = title_if_first(d1, cid, ui[s].prompt)
                  /\ agents' = [agents EXCEPT
                                  ![p].title_runs = @ + 1,
                                  ![p].replies =
                                      IF ui[s].full_response # <<>>
                                      THEN @ + 1 ELSE @]
                  /\ ui' = [ui EXCEPT ![s] =
                              [clear_streaming_state(@) EXCEPT
                                        !.pc = "idle",
                                        !.conv_id = <<>>,
                                        !.prompt = <<>>,
                                        !.full_response = <<>>]]
    /\ UNCHANGED <<vocab, clivars, memvars, callers, workers>>

\* one conversation with an earlier exchange is there at the start
InitApp ==
    /\ vocab \in AppVocabularies
    /\ pc = "app"
    /\ NoCli
    /\ NoMemory
    /\ db = [conversations |->
               <<Conversation(auto_title(sAsk),
                              <<Message("user", sAsk),
                                Message("assistant", sHello)>>)>>,
             liked |-> <<>>]
    /\ callers = <<>>
    /\ workers = <<>>
    /\ ui = [s \in Tabs |-> NewSession]
    /\ agents = <<>>

NextApp ==
    \E s \in Tabs :
        \/ Click(s)
        \/ Run(s)
        \/ LoopEvent(s)
        \/ Complete(s)

SpecApp == InitApp /\ [][NextApp]_vars

\* one browser tab on its own
NextTab ==
    \/ Click(1)
    \/ Run(1)
    \/ LoopEvent(1)
    \/ Complete(1)

SpecTab == InitApp /\ [][NextTab]_vars

\* the interaction that led to the kill of agent p is of kind k
KilledOn(p, k) ==
    /\ agents[p].killed_on # <<>>
    /\ Get(agents[p].killed_on)[1] = k

\* the agent's events that iter_events has not handed over
Unread(p) == Len(ScriptOf(vocab)) - agents[p].pos

\* C25: while a request of a conversation is in flight, going to another
\* conversation (a conversation button or New Chat) and back leaves the
\* agent subprocess running and accumulating: no agent is ever killed
\* because its session went to another conversation, so no streamed text
\* is lost.
C25_KeepsRunningUnobserved ==
    \A p \in DOMAIN agents :
        ~ KilledOn(p, "select") /\ ~ KilledOn(p, "new")

\* the session of an agent chose another conversation while the agent was
\* streaming: the agent was killed with events unread, and the text
\* received so far was saved as a stopped generation
C25_KilledOnSwitch ==
    \E p \in DOMAIN agents :
        /\ KilledOn(p, "select")
        /\ Get(agents[p].killed_on)[2] # agents[p].conv
        /\ ~ agents[p].alive
        /\ Unread(p) > 0
        /\ agents[p].saved = Some(sHello \o sStoppedMark)
        /\ ui[agents[p].session].current_conv
             = Some(Get(agents[p].killed_on)[2])

\* the messages of the conversation of agent p
MessagesOf(p) == db.conversations[agents[p].conv].messages

Saved(p, content) ==
    /\ agents[p].saved = Some(content)
    /\ \E i \in DOMAIN MessagesOf(p) :
         MessagesOf(p)[i] = Message("assistant", content)

\* C26: a stop by the user while the agent streams ends the subprocess and
\* loses none of the text accumulated so far: what the reconciler had
\* accumulated when the run was stopped is saved as the assistant message
\* of the conversation, followed by the stopped mark.
C26_StopSavesAccumulated ==
    \A p \in DOMAIN agents :
        KilledOn(p, "stop") =>
            /\ ~ agents[p].alive
            /\ agents[p].accumulated # <<>> =>
                   Saved(p, agents[p].accumulated \o sStoppedMark)

\* the agent was stopped after a replace operation: the reconciler held
\* the replacement and what followed it, the message saved holds the text
\* streamed before the replacement instead
C26_SavedStale ==
    \E p \in DOMAIN agents :
        /\ KilledOn(p, "stop")
        /\ ~ agents[p].alive
        /\ agents[p].accumulated = sRewritten150 \o sBang
        /\ Saved(p, sInvestigating \o sBang \o sStoppedMark)

\* the extractions of the diagnostic state machine made on text
ExtractionsOn(text) ==
    {i \in DOMAIN extractions : extractions[i].response = text}

\* C27: after a stop by the user the extraction of the diagnostic state
\* machine and the title logic have each run exactly once for the stopped
\* request, the extraction on the partial text that was saved.
C27_ExtractedAndTitledOnce ==
    \A p \in DOMAIN agents :
        (KilledOn(p, "stop") /\ agents[p].saved # <<>>) =>
            /\ agents[p].title_runs = 1
            /\ \E text \in {ui[agents[p].session].partial_response,
                           AccumulatedOf(agents, p),
                           Get(agents[p].saved)} :
                   Cardinality(ExtractionsOn(text)) = 1

\* a request was stopped and its partial text saved; the title logic ran
\* once, on the prompt, and the diagnostic state machine was never run
C27_NeverExtracted ==
    \E p \in DOMAIN agents :
        /\ KilledOn(p, "stop")
        /\ agents[p].saved = Some(sHello \o sStoppedMark)
        /\ agents[p].title_runs = 1
        /\ extractions = <<>>
        /\ state = <<>>
        /\ db.conversations[agents[p].conv].title = auto_title(PromptOf(vocab))

\* C28: no two agent subprocesses are alive for one conversation at the
\* same time, whatever the order of the requests, those of two browser
\* sessions that show the same conversation included.
C28_OneAgentPerConversation ==
    \A p, q \in DOMAIN agents :
        (p # q /\ agents[p].alive /\ agents[q].alive)
        => agents[p].conv # agents[q].conv

\* two sessions have each sent a prompt in the same conversation: both
\* agents are alive, and both sessions stream into the conversation
C28_TwoAgents ==
    \E p, q \in DOMAIN agents :
        /\ p # q
        /\ agents[p].alive
        /\ agents[q].alive
        /\ agents[p].conv = agents[q].conv
        /\ agents[p].session # agents[q].session
        /\ ui[agents[p].session].pc = "streaming"
        /\ ui[agents[q].session].pc = "streaming"
        /\ Len(SelectSeq(MessagesOf(p), IsUser)) = 3

(***************************************************************************)
(* Further properties of the diagnostic state machine.                     *)
(***************************************************************************)
\* the log file names of the response, in the order they stand in it
LogNames(response) == finditer("log_file", response)

\* C33: when the response names log files, after the call every one of
\* them is in downloaded_logs and last_log_file is the last name in the
\* response, also when that name was in downloaded_logs before.
C33_LastLogIsLastNamed ==
    \A n \in DOMAIN extractions :
        LET x     == extractions[n]
            names == LogNames(x.response)
        IN  names # <<>> =>
              /\ \A k \in DOMAIN names : InList(names[k], x.returned.downloaded_logs)
              /\ x.returned.last_log_file = Some(names[Len(names)])

\* a later response names a log file the state holds already: the name is
\* no new entry and last_log_file stays the name of the other file
C33_LastLogKept ==
    /\ Len(extractions) = 2
    /\ extractions[1].response = rLogs
    /\ extractions[2].response = rLogAgain
    /\ LogNames(rLogAgain) = <<sLog1>>
    /\ state.downloaded_logs = <<sLog1, sLog2>>
    /\ state.last_log_file = Some(sLog2)

\* the response names the first file again after the second: last_log_file
\* is the second
C33_LastLogNotLast ==
    /\ Len(extractions) = 1
    /\ extractions[1].response = rLogs
    /\ LogNames(rLogs) = <<sLog1, sLog2, sLog1>>
    /\ state.downloaded_logs = <<sLog1, sLog2>>
    /\ state.last_log_file = Some(sLog2)

\* the response matches none of the four patterns
MatchesNothing(response) ==
    \A kind \in {"log_file", "root_cause", "hypothesis", "finding"} :
        finditer(kind, response) = <<>>

\* C34: a response that matches none of the extraction patterns leaves the
\* whole state as it was, the status included, whatever the state before.
C34_MissLeavesState ==
    \A n \in DOMAIN extractions :
        MatchesNothing(extractions[n].response)
        => extractions[n].returned = extractions[n].before

\* a response with no pattern moved an idle state with a known device to
\* investigating
C34_MissMovedStatus ==
    /\ Len(extractions) = 1
    /\ MatchesNothing(extractions[1].response)
    /\ extractions[1].response = rNothing
    /\ extractions[1].before.status = "idle"
    /\ [state EXCEPT !.status = "idle"] = extractions[1].before
    /\ state.status = "investigating"

\* C35: a second call with the same response changes nothing: the state
\* after two calls over one response is the state after the first.
C35_Idempotent ==
    \A n \in DOMAIN extractions :
        /\ extract_state_updates(extractions[n].response,
                                 extractions[n].returned).returned
             = extractions[n].returned
        /\ (n > 1 /\ extractions[n].response = extractions[n - 1].response)
           => extractions[n].returned = extractions[n - 1].returned

C35_Witness ==
    /\ Len(extractions) = 2
    /\ extractions[1].response = rRootJ4
    /\ extractions[2].response = rRootJ4
    /\ extractions[1].before.status = "idle"
    /\ extractions[1].before.root_causes = <<>>
    /\ DeviceKnown(extractions[1].before)
    /\ extractions[1].returned.status = "resolved"
    /\ state = extractions[1].returned

\* the other lists and last_log_file of C35: the same logs named twice
C35_WitnessLogs ==
    /\ Len(extractions) = 2
    /\ extractions[1].response = rLogs
    /\ extractions[2].response = rLogs
    /\ extractions[1].before.downloaded_logs = <<>>
    /\ state.downloaded_logs = <<sLog1, sLog2>>
    /\ state = extractions[1].returned

\* C37: no call assigns device_ip or device_name; from the default state
\* (idle, no device) the status is idle and to_prompt_block is empty after
\* every sequence of calls, whatever was extracted.
C37_DefaultStaysIdle ==
    /\ \A n \in DOMAIN extractions :
         /\ extractions[n].returned.device_ip = extractions[n].before.device_ip
         /\ extractions[n].returned.device_name = extractions[n].before.device_name
    /\ (extractions # <<>> /\ extractions[1].before = DefaultState)
       => /\ state.status = "idle"
          /\ state.device_ip = <<>>
          /\ to_prompt_block(state) = <<>>

C37_Witness ==
    /\ Len(extractions) = 2
    /\ extractions[1].before = DefaultState
    /\ extractions[1].response = rRootJ4
    /\ extractions[2].response = rRootTwice
    /\ state.root_causes = <<sJ4, sPumpDriver>>
    /\ state.status = "idle"
    /\ to_prompt_block(state) = <<>>

\* the lines of the block rendered for the state
BlockLines(st) ==
    LET lines == Split(to_prompt_block(st), <<"\n">>)
    IN  {lines[i] : i \in DOMAIN lines}

\* entry k of the list is shown in the block, as a bullet line
Surfaced(st, list, k) == Bullets(<<list[k]>>)[1] \in BlockLines(st)

NoteFields == {"findings", "hypotheses", "root_causes"}

\* C36: the block of an idle state is empty; the block of another state
\* shows of findings, hypotheses and root causes only the most recent
\* entries, never one that has more than WidestWindow - 1 entries after it
\* in its list, however many the state holds; the state keeps them all.
C36_OnlyRecentSurfaced ==
    Prompted =>
        LET st == Get(built).diagnostic_state
        IN  /\ st.status = "idle" => to_prompt_block(st) = <<>>
            /\ \A f \in NoteFields :
                 \A k \in DOMAIN st[f] :
                    Surfaced(st, st[f], k) => k > Len(st[f]) - WidestWindow

\* the state holds more than WidestWindow root causes and the block of the
\* prompt shows every one of them, the oldest included
C36_AllSurfaced ==
    /\ Prompted
    /\ LET st == Get(built).diagnostic_state
       IN  /\ st.status = "resolved"
           /\ Len(st.root_causes) = WidestWindow + 2
           /\ \A k \in DOMAIN st.root_causes : Surfaced(st, st.root_causes, k)
           /\ HasBlock(Get(built).result.blocks, 1)

\* the lines of the recent block of the prompt built, one per recent message
RecentLines ==
    LET blocks == Get(built).result.blocks
        block  == blocks[Len(blocks)]
        inner  == SubSeq(block, Len(sRecentOpen) + 1,
                         Len(block) - Len(sRecentClose))
    IN  IF BlockKind(block) = 4 THEN Split(inner, <<"\n", "\n">>) ELSE <<>>

\* what a line holds after its label
LineContent(line, msg) ==
    SubSeq(line, Len(role_label(msg)) + 3, Len(line))

\* body is made of the first characters of content, the cut mark and the
\* last characters of content, and of nothing else
IsCapOf(body, content) ==
    LET marks == Occurrences(body, 1, sCutMark)
    IN  /\ marks # {}
        /\ LET h == Least(marks) - 1
               t == Len(body) - h - Len(sCutMark)
           IN  /\ h + t <= MAX_RECENT_MSG_CHARS
               /\ h + t < Len(content)
               /\ body = FirstChars(content, h) \o sCutMark
                         \o LastChars(content, t)

\* the text between the tags of the recent block of the prompt built
RecentInner ==
    LET blocks == Get(built).result.blocks
        block  == blocks[Len(blocks)]
    IN  IF BlockKind(block) = 4
        THEN SubSeq(block, Len(sRecentOpen) + 1, Len(block) - Len(sRecentClose))
        ELSE <<>>

\* text is the lines of the messages k, k + 1, ... of msgs, two newlines
\* between them: each line the label of its message and then the filtered
\* content in full when that is at most MAX_RECENT_MSG_CHARS long, and
\* otherwise a cut of it that ends where the next line begins
RECURSIVE LinesHold(_, _, _)
LinesHold(text, msgs, k) ==
    LET head    == role_label(msgs[k]) \o <<":", " ">>
        content == filter_content(msgs[k].content)
        rest    == SliceFrom(text, Len(head))
        gaps    == Occurrences(rest, 1, <<"\n", "\n">>)
        n       == IF Len(content) <= MAX_RECENT_MSG_CHARS THEN Len(content)
                   ELSE IF gaps = {} THEN Len(rest)
                   ELSE Least(gaps) - 1
        body    == FirstChars(rest, n)
    IN  /\ IsPrefixOf(head, text)
        /\ IF Len(content) <= MAX_RECENT_MSG_CHARS
           THEN body = content
           ELSE IsCapOf(body, content)
        /\ IF k = Len(msgs) THEN Len(rest) = n
           ELSE /\ MatchAt(rest, n + 1, <<"\n", "\n">>)
                /\ LinesHold(SliceFrom(rest, n + 2), msgs, k + 1)

\* C40: in the prompt every recent message has its line, and the line
\* holds the filtered content of the message in full when that is at most
\* MAX_RECENT_MSG_CHARS long, and otherwise no more than
\* MAX_RECENT_MSG_CHARS characters of it, from its start and its end, around
\* a cut mark.
C40_RecentCapped ==
    Prompted =>
        LET recent == Get(built).result.recent
        IN  IF recent = <<>> THEN RecentInner = <<>>
            ELSE LinesHold(RecentInner, recent, 1)

\* the recent messages of the prompt hold an answer one character over the
\* cap, which is cut, one at the cap and one over it only before filtering,
\* which are there in full
C40_Witness ==
    /\ Prompted
    /\ vocab = "capped"
    /\ Len(Get(built).result.recent) = 2 * RECENT_TURN_COUNT
    /\ \E i, j, k \in DOMAIN RecentLines :
         LET recent == Get(built).result.recent
             half   == MAX_RECENT_MSG_CHARS \div 2
         IN  /\ Len(filter_content(recent[i].content)) = MAX_RECENT_MSG_CHARS + 1
             /\ LineContent(RecentLines[i], recent[i])
                  = Rep("h", half) \o sCutMark \o Rep("t", half)
             /\ Len(recent[j].content) = MAX_RECENT_MSG_CHARS
             /\ LineContent(RecentLines[j], recent[j]) = recent[j].content
             /\ Len(recent[k].content) > MAX_RECENT_MSG_CHARS
             /\ LineContent(RecentLines[k], recent[k])
                  = Rep("h", half) \o Rep("t", half)

\* the workers started for the key that have not exited
Running == {w \in DOMAIN workers : workers[w].pc # "exited"}

\* C38: at most one summarization worker runs for the key at a time: a call
\* of start_summarization that finds the entry pending, summarizing or
\* completed starts nothing, also when two calls interleave (and so no
\* second worker is there to move a completed entry to another status).
C38_OneWorkerPerKey ==
    Cardinality(Running) <= 1

\* two calls both read the entry before either created it: each started a
\* worker and both workers run
C38_TwoWorkers ==
    /\ Cardinality(Running) = 2
    /\ \A i \in DOMAIN callers : callers[i].result = Some(TRUE)
    /\ db.liked # <<>>
    /\ Get(db.liked).status = "summarizing"

\* the entry was completed by one worker and cancelled by the other, which
\* found it completed when it read it
C38_CompletedLost ==
    /\ \E w \in DOMAIN workers :
         workers[w].pc = "exited" /\ workers[w].path # <<>>
    /\ db.liked # <<>>
    /\ Get(db.liked).status = "cancelled"
    /\ Get(db.liked).file_path = Some(sLikedFile)
    /\ \A w \in DOMAIN workers : workers[w].pc = "exited"

(***************************************************************************)
(* C32: the done event.                                                    *)
(***************************************************************************)
DonesAt == {i \in DOMAIN events : events[i][1] = "done"}

\* what a run of iter_events consumed to its end owes its caller: one done
\* event, the last one, carrying the exit code of the process, "1" when the
\* process has none
DoneOnceAndLast ==
    pc = "finished"
    => /\ DonesAt = {Len(events)}
       /\ LET rc == Get(proc).returncode
          IN  events[Len(events)][2] =
                  IF rc = <<>> THEN <<"1">> ELSE StrInt(Get(rc))

DoneAfterCleanExit ==
    /\ pc = "finished"
    /\ Get(proc).returncode = Some(0)
    /\ \A i \in DOMAIN events : events[i][1] # "error"

DoneAfterException ==
    /\ pc = "finished"
    /\ \E n \in DOMAIN reads : reads[n].exc # <<>>
    /\ DonesAt = {Len(events)}

\* Popen failed: no child was started
SpawnFailed == cp.called /\ cp.result.child = <<>>

\* C32: a run of iter_events consumed to its end emits exactly one done event,
\* the last one, with the exit code or "1" as payload, and stream_response on
\* a spawn failure emits exactly the events error and done "1".
C32_SpawnFailureEvents ==
    (pc \in {"stream_failed", "stream_raised", "stream_delegated"}
        /\ SpawnFailed)
    => /\ cp.result.raised = <<>>
       /\ Len(events) = 2
       /\ events[1][1] = "error"
       /\ events[2] = Ev("done", <<"1">>)

\* the spawn that fails without any event: Popen raises PermissionError
C32_RaisedNoEvents ==
    /\ pc = "stream_raised"
    /\ SpawnFailed
    /\ cp.result.raised = Some("PermissionError")
    /\ events = <<>>

(***************************************************************************)
(* C39: tool events.                                                       *)
(***************************************************************************)
ToolKinds == {TOOL_MAP[i][1] : i \in DOMAIN TOOL_MAP}

ToolEventsOf(out) == {i \in DOMAIN out : out[i][1] = "tool"}

\* the events of read n are in the stream where the read found its end, and
\* the events of a later read come after them
InStreamOrder(n) ==
    LET r == reads[n]
    IN  /\ r.at + Len(r.out) <= Len(events)
        /\ SubSeq(events, r.at + 1, r.at + Len(r.out)) = r.out
        /\ \A m \in DOMAIN reads : n < m => r.at + Len(r.out) <= reads[m].at

\* C39: a tool_call line yields a tool event only when its subtype is
\* "started" and it names a known tool kind with a non-empty argument; the
\* event takes its place in the stream in line order and the line leaves the
\* accumulated text as it was.
C39_ToolEventsOnlyOnStart ==
    \A n \in DOMAIN reads :
        LET r == reads[n]
        IN  /\ ToolEventsOf(r.out) # {}
               => /\ r.line.type = "tool_call"
                  /\ r.line.subtype = "started"
                  /\ r.line.tool_call.key \in ToolKinds
                  /\ r.line.tool_call.arg # <<>>
                  /\ Cardinality(ToolEventsOf(r.out)) = 1
            /\ (r.line.raw = "json" /\ r.line.json = "object"
                  /\ r.line.type = "tool_call")
               => r.acc_after = r.acc_before
            /\ InStreamOrder(n)

\* text, then a tool event, then a started line without argument that yields
\* nothing, with the text untouched
C39_Witness ==
    /\ Len(reads) = 3
    /\ reads[1].line = MultiItemLine
    /\ reads[1].acc_after # <<>>
    /\ reads[2].line.tool_call = ShellTool
    /\ reads[2].line.subtype = "started"
    /\ ToolEventsOf(reads[2].out) # {}
    /\ reads[3].line.tool_call = ReadNothingTool
    /\ reads[3].out = <<>>
    /\ accumulated = reads[1].acc_after

\* lines that yield no tool event: another subtype, an unknown tool kind
C39_WitnessSilent ==
    /\ Len(reads) = 2
    /\ reads[1].line.tool_call = ShellTool
    /\ reads[1].line.subtype = "completed"
    /\ reads[2].line.tool_call = McpTool
    /\ reads[2].line.subtype = "started"
    /\ events = <<>>

(***************************************************************************)
(* C31: one assistant message for a request.                               *)
(***************************************************************************)
IsAssistant(m) == m.role = "assistant"

\* two assistant messages in a row in conversation c
TwoInARow(c) ==
    LET ms == db.conversations[c].messages
    IN  \E i \in 1..(Len(ms) - 1) : IsAssistant(ms[i]) /\ IsAssistant(ms[i + 1])

\* C31: for a user request at most one assistant message is saved, whatever
\* the moment the interaction that ends the run arrives at (while streaming,
\* after the last event, before the state is cleared and the reply saved):
\* never the stopped partial text and the full reply both.
C31_OneReplyPerRequest ==
    /\ \A p \in DOMAIN agents : agents[p].replies <= 1
    /\ \A c \in DOMAIN db.conversations : ~TwoInARow(c)

\* the interaction arrived after the last event and ended the run at a
\* drawing call of the post-processing: the stopped partial text was saved,
\* not the full reply
C31_Witness ==
    \E p \in DOMAIN agents :
        LET ms == MessagesOf(p)
        IN  /\ agents[p].pos = Len(ScriptOf(vocab))
            /\ agents[p].replies = 1
            /\ ui[1].streaming_proc = <<>>
            /\ \E i \in DOMAIN ms :
                  /\ IsAssistant(ms[i])
                  /\ Len(ms[i].content) > Len(sStoppedMark)
                  /\ LastChars(ms[i].content, Len(sStoppedMark)) = sStoppedMark

\* the interaction arrived after the last event and the run went on to its
\* end: the full reply was saved, and the run that followed saved nothing
C31_WitnessFull ==
    \E p \in DOMAIN agents :
        LET ms == MessagesOf(p)
        IN  /\ agents[p].pos = Len(ScriptOf(vocab))
            /\ agents[p].replies = 1
            /\ ui[1].pc = "idle"
            /\ ui[1].clicks = 2
            /\ ui[1].request = <<>>
            /\ ms[Len(ms)].role = "assistant"
            /\ ms[Len(ms)].content = app_loop(<<>>, ScriptOf(vocab))

=============================================================================
